---- MODULE Spec2Model ----
(***************************************************************************)
(* RDM responder conformance tests (tools/rdm/TestDefinitions.py) run by   *)
(* the test engine: dependency scheduler, action-chain controller,         *)
(* expectation matcher, property store and diagnostics collector.          *)
(*                                                                         *)
(* The test descriptors (Test, VerifyResult, continuation actions,         *)
(* REQUIRES / PROVIDES / DEPS) are translated from TestDefinitions.py.     *)
(* The engine they call into (ResponderTest, ExpectedResults, TestMixins)  *)
(* is not part of the source tree at hand; it is modelled from sections    *)
(* 4 to 7 of the specification.                                            *)
(***************************************************************************)
EXTENDS Integers, Sequences, FiniteSets, TLC

VARIABLES
    catalog,      \* the descriptors loaded for this run
    supported,    \* PIDs for which PidSupported() answers true
    order,        \* the linear execution order built by the scheduler
    pc,           \* number of tests of order that have reached a verdict
    cur,          \* the test being executed (or executed last)
    cstate,       \* IDLE | AWAITING | TERMINAL | RESETTING
    expected,     \* ExpectedOutcome list registered for the outstanding request
    outstanding,  \* requests sent and not yet answered or timed out
    sent,         \* requests sent by cur, in order
    props,        \* Property Store: fact name -> value
    provided,     \* fact names written so far (Has)
    nwrites,      \* fact name -> number of Set calls in this run
    mlog,         \* <<test, step, kind, name, verdict then>> of every store
                  \* write and warning
    verdict,      \* test -> PENDING | PASSED | FAILED | BROKEN | NOT_RUN
    nwarn,        \* warnings and advisories logged by cur
    self,         \* instance fields of cur
    aborted,      \* a run-level abort has arrived
    raised,       \* a test callback raised an uncaught exception
    last,         \* what the controller did with the latest response
    registry      \* the module of constant tables that is being loaded

vars == <<catalog, supported, order, pc, cur, cstate, expected, outstanding,
          sent, props, provided, nwrites, mlog, verdict, nwarn, self,
          aborted, raised, last, registry>>

\* the variables of a test run
runvars == <<catalog, supported, order, pc, cur, cstate, expected,
             outstanding, sent, props, provided, nwrites, mlog, verdict,
             nwarn, self, aborted, raised, last>>

(***************************************************************************)
(* Bounds of the model                                                     *)
(***************************************************************************)
\* PidStore.MAX_VALID_SUB_DEVICE (0x0200 on the wire), scaled down
MAX_VALID_SUB_DEVICE == 3
\* largest sub_device_count a DEVICE_INFO reply carries
MaxSubDeviceCount == 2
\* largest personality_count a DEVICE_INFO reply carries: the field is a
\* uint8, whose largest value is MAX_PERSONALITY_NUMBER (255), scaled down
\* with it
MaxPersonalityCount == 3
\* GetSensorDefinition.MAX_SENSOR_INDEX (0xfe), scaled down
MAX_SENSOR_INDEX == 2

\* the self test number at which FindSelfTests ends its scan (255 in
\* TestDefinitions.py)
MAX_SELF_TEST == 2
\* largest sensor_count a DEVICE_INFO reply carries
MaxSensorCount == 1

(***************************************************************************)
(* Program constants                                                       *)
(***************************************************************************)
\* the language codes a responder may report
MaxLanguages == 3

\* the latest wall-clock reading of a run
MaxClock == 1

MAX_DMX_ADDRESS == 512
ROOT_DEVICE == 0
ZERO_FOOTPRINT_ADDRESS == 65535
\* Python's None as the value of an integer fact
NoneVal == -1
\* a request that carries no parameter data
NoArg == -1
\* the raw parameter data 'foo' of the malformed requests
RawFoo == -2

(***************************************************************************)
(* The catalog: descriptors and their declared dependencies                *)
(***************************************************************************)
Tests ==
    {"GetDeviceInfo", "GetDeviceInfoWithData", "GetSupportedParameters",
     "FindSubDevices", "GetProxiedDeviceCount", "GetProxiedDevices",
     "ClearCommsStatus", "GetPersonalityDescription", "GetPersonality",
     "GetPersonalities", "SetPersonality", "GetStartAddress",
     "SetOutOfRangeStartAddress", "GetSensorDefinition", "GetSensorValues",
     "GetIdentifyDevice", "GetIdentifyDeviceWithData", "SetIdentifyDevice",
     "GetPowerState", "SetPowerState", "FindSelfTests",
     "GetParamDescription", "GetDeviceLabel", "SetDeviceLabel",
     "GetLanguageCapabilities", "GetLanguage", "SetLanguage",
     "SetStartAddress", "SetRealTimeClock", "SetUnsupportedLanguage",
     "SetZeroStartAddress", "SetOversizedStartAddress", "GetSlotInfo",
     "GetSlotDescriptions", "GetUndefinedSensorValues", "ResetSensorValue",
     "RecordSensorValues", "GetLampOnMode", "SetLampOnMode",
     "GetDisplayInvert", "SetDisplayInvert"}

PROVIDES(t) ==
    CASE t = "GetDeviceInfo" ->
           {"current_personality", "dmx_footprint", "dmx_start_address",
            "personality_count", "sensor_count", "sub_device_count"}
      [] t = "GetSupportedParameters" ->
           {"manufacturer_parameters", "supported_parameters"}
      [] t = "FindSubDevices" -> {"sub_device_indices"}
      [] t = "GetProxiedDevices" -> {"proxied_devices"}
      [] t = "GetDeviceLabel" -> {"device_label"}
      [] t = "GetLanguageCapabilities" -> {"languages_capabilities"}
      [] t = "GetLanguage" -> {"language"}
      [] t = "GetPersonalities" -> {"personalities"}
      [] t = "GetStartAddress" -> {"dmx_address"}
      [] t = "GetSlotInfo" -> {"defined_slots", "slot_info"}
      [] t = "GetSensorDefinition" -> {"sensor_definitions"}
      [] t = "GetSensorValues" -> {"sensor_values"}
      [] t = "GetDeviceHours" -> {"device_hours"}
      [] t = "GetLampHours" -> {"lamp_hours"}
      [] t = "GetLampStrikes" -> {"lamp_strikes"}
      [] t = "GetLampState" -> {"lamp_state"}
      [] t = "GetLampOnMode" -> {"lamp_on_mode"}
      [] t = "GetDevicePowerCycles" -> {"power_cycles"}
      [] t = "GetDisplayInvert" -> {"display_invert"}
      [] t = "GetDisplayLevel" -> {"display_level"}
      [] t = "GetPanInvert" -> {"pan_invert"}
      [] t = "GetTiltInvert" -> {"tilt_invert"}
      [] t = "GetPanTiltSwap" -> {"pan_tilt_swap"}
      [] t = "GetIdentifyDevice" -> {"identify_state"}
      [] t = "GetPowerState" -> {"power_state"}
      [] t = "FindSelfTests" -> {"self_test_descriptions"}
      [] OTHER -> {}

\* REQUIRES with the declarations that name a GetDeviceInfo fact left out
REQUIRES_NoDeviceInfo(t) ==
    CASE t = "GetProxiedDeviceCount" -> {"proxied_devices"}
      [] t = "GetParamDescription" -> {"manufacturer_parameters"}
      [] t = "SetPersonality" -> {"personalities"}
      [] t = "GetSensorValues" -> {"sensor_definitions"}
      [] t = "SetIdentifyDevice" -> {"identify_state"}
      [] t = "SetPowerState" -> {"power_state"}
      [] OTHER -> {}

\* REQUIRES with GetProxiedDeviceCount declaring no required fact
REQUIRES_ProxiedCountFree(t) ==
    CASE t = "FindSubDevices" -> {"sub_device_count"}
      [] t = "GetParamDescription" -> {"manufacturer_parameters"}
      [] t = "GetPersonalityDescription" ->
           {"current_personality", "dmx_footprint"}
      [] t = "GetPersonality" -> {"current_personality", "personality_count"}
      [] t = "SetPersonality" ->
           {"current_personality", "personality_count", "personalities"}
      [] t = "GetStartAddress" -> {"dmx_footprint", "dmx_start_address"}
      [] t = "SetOutOfRangeStartAddress" -> {"dmx_footprint"}
      [] t = "GetSensorDefinition" -> {"sensor_count"}
      [] t = "GetSensorValues" -> {"sensor_definitions"}
      [] t = "SetIdentifyDevice" -> {"identify_state"}
      [] t = "SetPowerState" -> {"power_state"}
      [] OTHER -> {}

REQUIRES(t) ==
    CASE t = "FindSubDevices" -> {"sub_device_count"}
      [] t \in {"GetParamDescription",
                "GetParamDescriptionForNonManufacturerPid",
                "GetParamDescriptionWithData"} ->
           {"manufacturer_parameters"}
      [] t = "GetProxiedDeviceCount" -> {"proxied_devices"}
      [] t \in {"SetDeviceLabel", "SetFullSizeDeviceLabel",
                "SetNonAsciiDeviceLabel", "SetEmptyDeviceLabel",
                "SetOversizedDeviceLabel"} ->
           {"device_label"}
      [] t = "SetLanguage" -> {"language", "languages_capabilities"}
      [] t = "SetUnsupportedLanguage" -> {"languages_capabilities"}
      [] t \in {"GetOutOfRangePersonalityDescription", "GetPersonalities",
                "SetOutOfRangePersonality"} ->
           {"personality_count"}
      [] t = "GetPersonalityDescription" ->
           {"current_personality", "dmx_footprint"}
      [] t = "GetPersonality" -> {"current_personality", "personality_count"}
      [] t = "SetPersonality" ->
           {"current_personality", "personalities", "personality_count"}
      [] t = "GetStartAddress" -> {"dmx_footprint", "dmx_start_address"}
      [] t = "SetStartAddress" -> {"dmx_address", "dmx_footprint"}
      [] t \in {"SetOutOfRangeStartAddress", "SetZeroStartAddress",
                "SetOversizedStartAddress"} ->
           {"dmx_footprint"}
      [] t \in {"GetSlotDescriptions", "GetDefaultSlotValues"} ->
           {"defined_slots"}
      [] t = "GetSensorDefinition" -> {"sensor_count"}
      [] t \in {"GetSensorValues", "GetUndefinedSensorValues",
                "ResetSensorValue", "ResetAllSensorValues",
                "ResetUndefinedSensorValues", "RecordSensorValues",
                "RecordAllSensorValues", "RecordUndefinedSensorValues"} ->
           {"sensor_definitions"}
      [] t = "SetDeviceHours" -> {"device_hours"}
      [] t = "SetLampHours" -> {"lamp_hours"}
      [] t = "SetLampStrikes" -> {"lamp_strikes"}
      [] t = "SetLampState" -> {"lamp_state"}
      [] t = "SetLampOnMode" -> {"lamp_on_mode"}
      [] t = "SetDevicePowerCycles" -> {"power_cycles"}
      [] t = "SetDisplayInvert" -> {"display_invert"}
      [] t = "SetDisplayLevel" -> {"display_level"}
      [] t = "SetPanInvert" -> {"pan_invert"}
      [] t = "SetTiltInvert" -> {"tilt_invert"}
      [] t = "SetPanTiltSwap" -> {"pan_tilt_swap"}
      [] t = "SetIdentifyDevice" -> {"identify_state"}
      [] t = "SetPowerState" -> {"power_state"}
      [] OTHER -> {}

\* a catalog without explicit ordering dependencies
DEPS_None(t) == {}

\* a catalog in which GetPersonality is declared to run after SetPersonality
DEPS_Cyclic(t) ==
    CASE t = "SetPersonality" -> {"GetPersonality", "GetPersonalityDescription"}
      [] t = "GetPersonality" -> {"SetPersonality"}
      [] OTHER -> {}

DEPS(t) ==
    CASE t = "SetPersonality" -> {"GetPersonality", "GetPersonalityDescription"}
      [] t \in {"SetOutOfRangeStartAddress", "SetZeroStartAddress",
                "SetOversizedStartAddress"} -> {"GetStartAddress"}
      [] OTHER -> {}

\* the descriptors of TestDefinitions.py that declare PROVIDES, REQUIRES or
\* DEPS: every other descriptor has no edge in the dependency graph
Declaring ==
    {"GetDeviceInfo", "GetSupportedParameters", "FindSubDevices",
     "GetParamDescription", "GetParamDescriptionForNonManufacturerPid",
     "GetParamDescriptionWithData", "GetProxiedDeviceCount",
     "GetProxiedDevices", "GetDeviceLabel", "SetDeviceLabel",
     "SetFullSizeDeviceLabel", "SetNonAsciiDeviceLabel",
     "SetEmptyDeviceLabel", "SetOversizedDeviceLabel",
     "GetLanguageCapabilities", "GetLanguage", "SetLanguage",
     "SetUnsupportedLanguage", "GetOutOfRangePersonalityDescription",
     "GetPersonalityDescription", "GetPersonality", "GetPersonalities",
     "SetPersonality", "SetOutOfRangePersonality", "GetStartAddress",
     "SetStartAddress", "SetOutOfRangeStartAddress", "SetZeroStartAddress",
     "SetOversizedStartAddress", "GetSlotInfo", "GetSlotDescriptions",
     "GetDefaultSlotValues", "GetSensorDefinition", "GetSensorValues",
     "GetUndefinedSensorValues", "ResetSensorValue", "ResetAllSensorValues",
     "ResetUndefinedSensorValues", "RecordSensorValues",
     "RecordAllSensorValues", "RecordUndefinedSensorValues",
     "GetDeviceHours", "SetDeviceHours", "GetLampHours", "SetLampHours",
     "GetLampStrikes", "SetLampStrikes", "GetLampState", "SetLampState",
     "GetLampOnMode", "SetLampOnMode", "GetDevicePowerCycles",
     "SetDevicePowerCycles", "GetDisplayInvert", "SetDisplayInvert",
     "GetDisplayLevel", "SetDisplayLevel", "GetPanInvert", "SetPanInvert",
     "GetTiltInvert", "SetTiltInvert", "GetPanTiltSwap", "SetPanTiltSwap",
     "GetIdentifyDevice", "SetIdentifyDevice", "GetPowerState",
     "SetPowerState", "FindSelfTests"}

\* the parameter each descriptor tests (its PID attribute)
PID(t) ==
    CASE t \in {"GetDeviceInfo", "GetDeviceInfoWithData", "FindSubDevices"} ->
           "DEVICE_INFO"
      [] t = "GetSupportedParameters" -> "SUPPORTED_PARAMETERS"
      [] t = "GetParamDescription" -> "PARAMETER_DESCRIPTION"
      [] t = "GetProxiedDeviceCount" -> "PROXIED_DEVICE_COUNT"
      [] t = "GetProxiedDevices" -> "PROXIED_DEVICES"
      [] t = "ClearCommsStatus" -> "COMMS_STATUS"
      [] t \in {"GetPersonalityDescription", "GetPersonalities"} ->
           "DMX_PERSONALITY_DESCRIPTION"
      [] t \in {"GetPersonality", "SetPersonality"} -> "DMX_PERSONALITY"
      [] t \in {"GetStartAddress", "SetOutOfRangeStartAddress",
                "SetStartAddress", "SetZeroStartAddress",
                "SetOversizedStartAddress"} -> "DMX_START_ADDRESS"
      [] t \in {"GetDeviceLabel", "SetDeviceLabel"} -> "DEVICE_LABEL"
      [] t = "GetLanguageCapabilities" -> "LANGUAGE_CAPABILITIES"
      [] t \in {"GetLanguage", "SetLanguage", "SetUnsupportedLanguage"} ->
           "LANGUAGE"
      [] t = "SetRealTimeClock" -> "REAL_TIME_CLOCK"
      [] t = "GetSensorDefinition" -> "SENSOR_DEFINITION"
      [] t \in {"GetSensorValues", "GetUndefinedSensorValues",
                "ResetSensorValue"} -> "SENSOR_VALUE"
      [] t = "RecordSensorValues" -> "RECORD_SENSORS"
      [] t = "GetSlotInfo" -> "SLOT_INFO"
      [] t = "GetSlotDescriptions" -> "SLOT_DESCRIPTION"
      [] t \in {"GetIdentifyDevice", "GetIdentifyDeviceWithData",
                "SetIdentifyDevice"} -> "IDENTIFY_DEVICE"
      [] t \in {"GetLampOnMode", "SetLampOnMode"} -> "LAMP_ON_MODE"
      [] t \in {"GetDisplayInvert", "SetDisplayInvert"} -> "DISPLAY_INVERT"
      [] t \in {"GetPowerState", "SetPowerState"} -> "POWER_STATE"
      [] t = "FindSelfTests" -> "SELF_TEST_DESCRIPTION"

\* descriptors built on OptionalParameterTestFixture
Optional(t) ==
    t \in {"GetProxiedDeviceCount", "GetProxiedDevices", "ClearCommsStatus",
           "GetPersonalityDescription", "GetPersonality", "GetPersonalities",
           "SetPersonality", "GetSensorDefinition", "GetSensorValues",
           "GetPowerState", "SetPowerState", "FindSelfTests",
           "GetDeviceLabel", "SetDeviceLabel", "GetLanguageCapabilities",
           "GetLanguage", "SetLanguage", "SetRealTimeClock",
           "SetUnsupportedLanguage", "GetSlotInfo", "GetSlotDescriptions",
           "GetUndefinedSensorValues", "ResetSensorValue",
           "RecordSensorValues", "GetLampOnMode", "SetLampOnMode",
           "GetDisplayInvert", "SetDisplayInvert"}

FactNames == UNION {PROVIDES(t) : t \in Tests}

\* the facts whose value is a list
ListFacts ==
    {"sub_device_indices", "personalities", "sensor_values",
     "manufacturer_parameters", "supported_parameters", "proxied_devices",
     "slot_info"}

\* the value a fact name reads as before it is written
FactDefault(n) ==
    CASE n \in ListFacts -> <<>>
      [] n \in {"sensor_definitions", "self_test_descriptions",
                "languages_capabilities", "defined_slots"} -> {}
      [] OTHER -> 0

(***************************************************************************)
(* Dependency Scheduler (specification 4.3)                                *)
(***************************************************************************)
\* the descriptors of cat that t must run after: the producers of the
\* facts it requires, and its explicit ordering dependencies
Producers(cat, t) ==
    {u \in cat : PROVIDES(u) \cap REQUIRES(t) # {}}

Predecessors(cat, t) == Producers(cat, t) \cup (DEPS(t) \cap cat)

InOrder(t) == \E i \in 1..Len(order) : order[i] = t

Position(t) == CHOOSE i \in 1..Len(order) : order[i] = t

\* where the catalog declares each descriptor: the line of its class
Declared(t) ==
    CASE t = "GetDeviceInfo" -> 56
      [] t = "GetDeviceInfoWithData" -> 101
      [] t = "GetSupportedParameters" -> 136
      [] t = "FindSubDevices" -> 269
      [] t = "GetParamDescription" -> 313
      [] t = "GetProxiedDeviceCount" -> 400
      [] t = "GetProxiedDevices" -> 443
      [] t = "ClearCommsStatus" -> 483
      [] t = "GetDeviceLabel" -> 601
      [] t = "SetDeviceLabel" -> 617
      [] t = "GetLanguageCapabilities" -> 725
      [] t = "GetLanguage" -> 764
      [] t = "SetLanguage" -> 772
      [] t = "SetUnsupportedLanguage" -> 815
      [] t = "GetPersonalityDescription" -> 942
      [] t = "GetPersonality" -> 959
      [] t = "GetPersonalities" -> 988
      [] t = "SetPersonality" -> 1028
      [] t = "GetStartAddress" -> 1119
      [] t = "SetStartAddress" -> 1149
      [] t = "SetOutOfRangeStartAddress" -> 1186
      [] t = "SetZeroStartAddress" -> 1203
      [] t = "SetOversizedStartAddress" -> 1220
      [] t = "GetSlotInfo" -> 1238
      [] t = "GetSlotDescriptions" -> 1292
      [] t = "GetSensorDefinition" -> 1403
      [] t = "GetSensorValues" -> 1549
      [] t = "GetUndefinedSensorValues" -> 1634
      [] t = "ResetSensorValue" -> 1684
      [] t = "RecordSensorValues" -> 1762
      [] t = "GetLampOnMode" -> 1986
      [] t = "SetLampOnMode" -> 2001
      [] t = "GetDisplayInvert" -> 2066
      [] t = "SetDisplayInvert" -> 2082
      [] t = "SetRealTimeClock" -> 2290
      [] t = "GetIdentifyDevice" -> 2312
      [] t = "GetIdentifyDeviceWithData" -> 2320
      [] t = "SetIdentifyDevice" -> 2331
      [] t = "GetPowerState" -> 2367
      [] t = "SetPowerState" -> 2392
      [] t = "FindSelfTests" -> 2484

\* one step of the topological sort: any descriptor all of whose
\* predecessors are placed may come next (declaration order, which breaks
\* the tie in a given run, is left open)
Ready(t) ==
    /\ t \in catalog
    /\ ~InOrder(t)
    /\ \A u \in Predecessors(catalog, t) : InOrder(u)

Schedule(t) ==
    /\ Ready(t)
    /\ order' = Append(order, t)
    /\ UNCHANGED <<catalog, supported, pc, cur, cstate, expected, outstanding,
                   sent, props, provided, nwrites, mlog, verdict, nwarn, self,
                   aborted, raised, last, registry>>

(***************************************************************************)
(* Requests, responses and ExpectedOutcome patterns                        *)
(***************************************************************************)
Request(cc, sub, pid, arg) == [cc |-> cc, sub |-> sub, pid |-> pid, arg |-> arg]

NoFields == [n \in {} |-> 0]

NoValues == {}

AckGetResult(pid, names, values, action, warning) ==
    [cc |-> "GET", pid |-> pid, ack |-> TRUE, reason |-> "", names |-> names,
     values |-> values, action |-> action, warning |-> warning,
     advisory |-> FALSE]

NackGetResult(pid, reason, action, advisory) ==
    [cc |-> "GET", pid |-> pid, ack |-> FALSE, reason |-> reason,
     names |-> {}, values |-> NoValues, action |-> action, warning |-> FALSE,
     advisory |-> advisory]

AckSetResult(pid, action) ==
    [cc |-> "SET", pid |-> pid, ack |-> TRUE, reason |-> "", names |-> {},
     values |-> NoValues, action |-> action, warning |-> FALSE,
     advisory |-> FALSE]

NackSetResult(pid, reason, action) ==
    [cc |-> "SET", pid |-> pid, ack |-> FALSE, reason |-> reason,
     names |-> {}, values |-> NoValues, action |-> action, warning |-> FALSE,
     advisory |-> FALSE]

WasAcked(r) == r.kind = "ACK"

(***************************************************************************)
(* Expectation Matcher (specification 4.4)                                 *)
(***************************************************************************)
\* response class: positive ack, or negative ack with the same reason
ClassMatches(p, r) ==
    /\ p.cc = r.cc
    /\ p.pid = r.pid
    /\ \/ p.ack /\ r.kind = "ACK"
       \/ ~p.ack /\ r.kind = "NACK" /\ p.reason = r.reason

\* the first pattern in list order whose class matches; 0 when none does
MatchIndex(exp, r) ==
    IF \E i \in 1..Len(exp) : ClassMatches(exp[i], r)
    THEN CHOOSE i \in 1..Len(exp) :
             /\ ClassMatches(exp[i], r)
             /\ \A j \in 1..(i - 1) : ~ClassMatches(exp[j], r)
    ELSE 0

\* the selected pattern's field constraints against the decoded fields
FieldsOk(p, r) ==
    /\ p.names \subseteq DOMAIN r.f
    /\ \A c \in p.values : c[1] \in DOMAIN r.f /\ r.f[c[1]] = c[2]

(***************************************************************************)
(* The calls a descriptor makes into the engine.  s is the context of the  *)
(* running test: store, diagnostics, expectations and instance fields.     *)
(***************************************************************************)
Property(s, n) == s.props[n]

\* Property Store Set (4.2): the write, and the record of it
SetProperty(s, n, val) ==
    [s EXCEPT !.props = [@ EXCEPT ![n] = val],
              !.provided = @ \cup {n},
              !.nwrites = [@ EXCEPT ![n] = @ + 1],
              !.mlog = @ \cup {<<s.cur, s.phase, "SetProperty", n, s.v>>}]

SetPropertyFromDict(s, f, n) == SetProperty(s, n, f[n])

AddWarning(s) ==
    [s EXCEPT !.nwarn = @ + 1,
              !.mlog = @ \cup {<<s.cur, s.phase, "AddWarning", "", s.v>>}]

AddAdvisory(s) ==
    [s EXCEPT !.nwarn = @ + 1,
              !.mlog = @ \cup {<<s.cur, s.phase, "AddAdvisory", "", s.v>>}]

\* a warning or advisory raised under a condition
WarnIf(s, cond) == IF cond THEN AddWarning(s) ELSE s

AdviseIf(s, cond) == IF cond THEN AddAdvisory(s) ELSE s

SetFailed(s) == [s EXCEPT !.v = "FAILED"]

\* the message of a failure and the two numbers formatted into it
Message(msg, n, m) == [msg |-> msg, n |-> n, m |-> m]

NoMessage == Message("", 0, 0)

\* SetFailed with the message kept for the report
SetFailedBecause(s, why) == [SetFailed(s) EXCEPT !.last.why = why]

SetBroken(s) == [s EXCEPT !.v = "BROKEN"]

SetNotRun(s) == [s EXCEPT !.v = "NOT_RUN"]

Stop(s) == [s EXCEPT !.stopped = TRUE]

\* an error raised in a method of the test: it leaves the method where it
\* is raised and ends the test
Raise(s) == [s EXCEPT !.raised = TRUE, !.stopped = TRUE]

\* registers the outcome list for the request about to be sent
AddExpectedResults(s, results) == [s EXCEPT !.expected = results]

Send(s, req) ==
    [s EXCEPT !.outstanding = @ + 1, !.sent = Append(@, req)]

SendGet(s, sub, pid, arg) == Send(s, Request("GET", sub, pid, arg))

SendSet(s, sub, pid, arg) == Send(s, Request("SET", sub, pid, arg))

SendRawGet(s, sub, pid, data) == Send(s, Request("GET", sub, pid, data))

SendRawSet(s, sub, pid, data) == Send(s, Request("SET", sub, pid, data))

PidSupported(s) == PID(s.cur) \in s.supported

AddIfGetSupported(s, results) ==
    IF PidSupported(s)
    THEN AddExpectedResults(s, results)
    ELSE AddExpectedResults(s,
             <<NackGetResult(PID(s.cur), "NR_UNKNOWN_PID", "", FALSE)>>)

AddIfSetSupported(s, results) ==
    IF PidSupported(s)
    THEN AddExpectedResults(s, results)
    ELSE AddExpectedResults(s,
             <<NackSetResult(PID(s.cur), "NR_UNKNOWN_PID", "")>>)

(***************************************************************************)
(* Device Info tests                                                       *)
(***************************************************************************)
DeviceInfoTest_FIELDS ==
    {"device_model", "product_category", "software_version", "dmx_footprint",
     "current_personality", "personality_count", "dmx_start_address",
     "sub_device_count", "sensor_count"}

DeviceInfoTest_FIELD_VALUES ==
    {<<"protocol_major", 1>>, <<"protocol_minor", 0>>}

GetDeviceInfo_Test(s) ==
    LET s1 == AddExpectedResults(s,
                  <<AckGetResult("DEVICE_INFO", DeviceInfoTest_FIELDS,
                                 DeviceInfoTest_FIELD_VALUES, "", FALSE)>>)
    IN SendGet(s1, ROOT_DEVICE, "DEVICE_INFO", NoArg)

GetDeviceInfo_VerifyResult(s, r) ==
    LET f == r.f
        p1 == SetPropertyFromDict(s, f, "current_personality")
        p2 == SetPropertyFromDict(p1, f, "dmx_footprint")
        p3 == SetPropertyFromDict(p2, f, "dmx_start_address")
        p4 == SetPropertyFromDict(p3, f, "personality_count")
        p5 == SetPropertyFromDict(p4, f, "sensor_count")
        p6 == SetPropertyFromDict(p5, f, "sub_device_count")
        footprint == f["dmx_footprint"]
        w1 == IF footprint > MAX_DMX_ADDRESS THEN AddWarning(p6) ELSE p6
        w2 == IF footprint > 0 /\ f["personality_count"] = 0
              THEN AddAdvisory(w1) ELSE w1
        w3 == IF footprint > 0
                  /\ (\/ f["current_personality"] = 0
                      \/ f["current_personality"] > f["personality_count"])
              THEN AddWarning(w2) ELSE w2
    IN IF f["sub_device_count"] > 512 THEN AddWarning(w3) ELSE w3

GetDeviceInfoWithData_Test(s) ==
    LET s1 == AddExpectedResults(s,
                  <<NackGetResult("DEVICE_INFO", "NR_FORMAT_ERROR", "", FALSE),
                    AckGetResult("DEVICE_INFO", DeviceInfoTest_FIELDS,
                                 DeviceInfoTest_FIELD_VALUES, "", TRUE)>>)
    IN SendRawGet(s1, ROOT_DEVICE, "DEVICE_INFO", RawFoo)

(***************************************************************************)
(* Sub Devices Test                                                        *)
(***************************************************************************)
\* _CheckForSubDevice giving up only once the index is past the range
FindSubDevices_CheckForSubDevice_PastRange(s) ==
    IF Len(s.self.sub_devices) = s.self.device_count
    THEN LET s1 == IF s.self.device_count = 0 THEN SetNotRun(s) ELSE s
         IN Stop(SetProperty(s1, "sub_device_indices", s.self.sub_devices))
    ELSE IF s.self.current_index > MAX_VALID_SUB_DEVICE
    THEN Stop(SetFailedBecause(s, Message("Only found",
                                           Len(s.self.sub_devices),
                                           s.self.device_count)))
    ELSE LET s1 ==
                   AddExpectedResults(s,
                       <<NackGetResult("DEVICE_INFO",
                                       "NR_SUB_DEVICE_OUT_OF_RANGE",
                                       "FindSubDevices._CheckForSubDevice",
                                       FALSE),
                         AckGetResult("DEVICE_INFO", {}, NoValues,
                                      "FindSubDevices._CheckForSubDevice",
                                      FALSE)>>)
             s2 == [s1 EXCEPT !.self.current_index = @ + 1]
         IN SendGet(s2, s2.self.current_index, "DEVICE_INFO", NoArg)

\* _CheckForSubDevice failing at the end of the range without stopping
FindSubDevices_CheckForSubDevice_FailsAndGoesOn(s) ==
    IF Len(s.self.sub_devices) = s.self.device_count
    THEN LET s1 == IF s.self.device_count = 0 THEN SetNotRun(s) ELSE s
         IN Stop(SetProperty(s1, "sub_device_indices", s.self.sub_devices))
    ELSE LET s0 == IF s.self.current_index >= MAX_VALID_SUB_DEVICE
                   THEN SetFailed(s) ELSE s
             s1 == AddExpectedResults(s0,
                       <<NackGetResult("DEVICE_INFO",
                                       "NR_SUB_DEVICE_OUT_OF_RANGE",
                                       "FindSubDevices._CheckForSubDevice",
                                       FALSE),
                         AckGetResult("DEVICE_INFO", {}, NoValues,
                                      "FindSubDevices._CheckForSubDevice",
                                      FALSE)>>)
             s2 == [s1 EXCEPT !.self.current_index = @ + 1]
         IN SendGet(s2, s2.self.current_index, "DEVICE_INFO", NoArg)

FindSubDevices_CheckForSubDevice(s) ==
    IF Len(s.self.sub_devices) = s.self.device_count
    THEN LET s1 == IF s.self.device_count = 0 THEN SetNotRun(s) ELSE s
         IN Stop(SetProperty(s1, "sub_device_indices", s.self.sub_devices))
    ELSE IF s.self.current_index >= MAX_VALID_SUB_DEVICE
    THEN Stop(SetFailedBecause(s, Message("Only found",
                                           Len(s.self.sub_devices),
                                           s.self.device_count)))
    ELSE LET s1 ==
                   AddExpectedResults(s,
                       <<NackGetResult("DEVICE_INFO",
                                       "NR_SUB_DEVICE_OUT_OF_RANGE",
                                       "FindSubDevices._CheckForSubDevice",
                                       FALSE),
                         AckGetResult("DEVICE_INFO", {}, NoValues,
                                      "FindSubDevices._CheckForSubDevice",
                                      FALSE)>>)
             s2 == [s1 EXCEPT !.self.current_index = @ + 1]
         IN SendGet(s2, s2.self.current_index, "DEVICE_INFO", NoArg)

\* FindSubDevices.Test querying index 1 before looking at the count
FindSubDevices_Test_QueriesFirst(s) ==
    LET s0 == [s EXCEPT !.self.device_count = Property(s, "sub_device_count"),
                        !.self.sub_devices = <<>>,
                        !.self.current_index = 1]
        s1 == AddExpectedResults(s0,
                  <<NackGetResult("DEVICE_INFO", "NR_SUB_DEVICE_OUT_OF_RANGE",
                                  "FindSubDevices._CheckForSubDevice", FALSE),
                    AckGetResult("DEVICE_INFO", {}, NoValues,
                                 "FindSubDevices._CheckForSubDevice",
                                 FALSE)>>)
    IN SendGet(s1, 1, "DEVICE_INFO", NoArg)

FindSubDevices_Test(s) ==
    FindSubDevices_CheckForSubDevice(
        [s EXCEPT !.self.device_count = Property(s, "sub_device_count"),
                  !.self.sub_devices = <<>>,
                  !.self.current_index = 0])

\* FindSubDevices.VerifyResult recording the index whatever the response
FindSubDevices_VerifyResult_CountsAll(s, r) ==
    [s EXCEPT !.self.sub_devices = Append(@, s.self.current_index)]

FindSubDevices_VerifyResult(s, r) ==
    IF WasAcked(r)
    THEN [s EXCEPT !.self.sub_devices = Append(@, s.self.current_index)]
    ELSE s

(***************************************************************************)
(* Comms Status                                                            *)
(***************************************************************************)
\* ClearCommsStatus.Test registering the ACK without its continuation
ClearCommsStatus_Test_NoVerify(s) ==
    LET s1 == AddIfSetSupported(s, <<AckSetResult("COMMS_STATUS", "")>>)
    IN SendSet(s1, ROOT_DEVICE, "COMMS_STATUS", NoArg)

ClearCommsStatus_Test(s) ==
    LET s1 == AddIfSetSupported(s,
                  <<AckSetResult("COMMS_STATUS", "ClearCommsStatus.VerifySet")>>)
    IN SendSet(s1, ROOT_DEVICE, "COMMS_STATUS", NoArg)

ClearCommsStatus_VerifySet(s) ==
    LET s1 == AddIfGetSupported(s,
                  <<AckGetResult("COMMS_STATUS", {},
                                 {<<"short_message", 0>>,
                                  <<"length_mismatch", 0>>,
                                  <<"checksum_fail", 0>>}, "", FALSE)>>)
    IN SendGet(s1, ROOT_DEVICE, "COMMS_STATUS", NoArg)

(***************************************************************************)
(* DMX Personality & DMX Personality Description                           *)
(***************************************************************************)
\* GetPersonalityDescription.Test asking only that the two fields be present
GetPersonalityDescription_Test_NamesOnly(s) ==
    LET current_personality == Property(s, "current_personality")
        s1 == AddIfGetSupported(s,
                  <<AckGetResult("DMX_PERSONALITY_DESCRIPTION",
                                 {"personality", "slots_required"}, NoValues,
                                 "", FALSE)>>)
    IN SendGet(s1, ROOT_DEVICE, "DMX_PERSONALITY_DESCRIPTION",
               current_personality)

GetPersonalityDescription_Test(s) ==
    LET current_personality == Property(s, "current_personality")
        footprint == Property(s, "dmx_footprint")
        s1 == AddIfGetSupported(s,
                  <<AckGetResult("DMX_PERSONALITY_DESCRIPTION", {},
                                 {<<"personality", current_personality>>,
                                  <<"slots_required", footprint>>},
                                 "", FALSE)>>)
    IN SendGet(s1, ROOT_DEVICE, "DMX_PERSONALITY_DESCRIPTION",
               current_personality)

(***************************************************************************)
(* DMX Start Address tests                                                 *)
(***************************************************************************)
\* GetStartAddress.Test listing the NACK before the ACK for a zero footprint
GetStartAddress_Test_NackFirst(s) ==
    LET results ==
            IF Property(s, "dmx_footprint") > 0
            THEN <<AckGetResult("DMX_START_ADDRESS", {"dmx_address"},
                                NoValues, "", FALSE)>>
            ELSE <<NackGetResult("DMX_START_ADDRESS", "NR_UNKNOWN_PID", "",
                                 FALSE),
                   AckGetResult("DMX_START_ADDRESS", {},
                                {<<"dmx_address", ZERO_FOOTPRINT_ADDRESS>>},
                                "", FALSE)>>
    IN SendGet(AddExpectedResults(s, results), ROOT_DEVICE,
               "DMX_START_ADDRESS", NoArg)

GetStartAddress_Test(s) ==
    LET results ==
            IF Property(s, "dmx_footprint") > 0
            THEN <<AckGetResult("DMX_START_ADDRESS", {"dmx_address"},
                                NoValues, "", FALSE)>>
            ELSE <<AckGetResult("DMX_START_ADDRESS", {},
                                {<<"dmx_address", ZERO_FOOTPRINT_ADDRESS>>},
                                "", FALSE),
                   NackGetResult("DMX_START_ADDRESS", "NR_UNKNOWN_PID", "",
                                 FALSE)>>
    IN SendGet(AddExpectedResults(s, results), ROOT_DEVICE,
               "DMX_START_ADDRESS", NoArg)

\* GetStartAddress.VerifyResult publishing None for a mismatching address
\* and then falling through to the write of the reported one
GetStartAddress_VerifyResult_WritesTwice(s, r) ==
    IF ~WasAcked(r)
    THEN SetProperty(s, "dmx_address", NoneVal)
    ELSE LET s1 == IF Property(s, "dmx_start_address") # r.f["dmx_address"]
                   THEN SetProperty(SetFailed(s), "dmx_address", NoneVal)
                   ELSE s
         IN SetPropertyFromDict(s1, r.f, "dmx_address")

GetStartAddress_VerifyResult(s, r) ==
    IF ~WasAcked(r)
    THEN SetProperty(s, "dmx_address", NoneVal)
    ELSE LET s1 == IF Property(s, "dmx_start_address") # r.f["dmx_address"]
                   THEN SetFailed(s) ELSE s
         IN SetPropertyFromDict(s1, r.f, "dmx_address")

(***************************************************************************)
(* Identify Device                                                         *)
(***************************************************************************)
\* GetIdentifyDeviceWithData.Test accepting an ACK as well, as the mixin for
\* optional parameters does
GetIdentifyDeviceWithData_Test_AckToo(s) ==
    LET s1 == AddExpectedResults(s,
                  <<NackGetResult("IDENTIFY_DEVICE", "NR_FORMAT_ERROR", "",
                                  FALSE),
                    AckGetResult("IDENTIFY_DEVICE", {}, NoValues, "", TRUE)>>)
    IN SendRawGet(s1, ROOT_DEVICE, "IDENTIFY_DEVICE", RawFoo)

GetIdentifyDeviceWithData_Test(s) ==
    LET s1 == AddExpectedResults(s,
                  <<NackGetResult("IDENTIFY_DEVICE", "NR_FORMAT_ERROR", "",
                                  FALSE)>>)
    IN SendRawGet(s1, ROOT_DEVICE, "IDENTIFY_DEVICE", RawFoo)

(***************************************************************************)
(* GET mixins (TestMixins): one GET whose acknowledged field is published  *)
(* as the descriptor's fact                                                *)
(***************************************************************************)
EXPECTED_FIELD(t) ==
    CASE t = "GetIdentifyDevice" -> "identify_state"
      [] t = "GetProxiedDevices" -> "uids"
      [] t \in {"GetPowerState", "SetPowerState"} -> "power_state"
      [] t \in {"GetLampOnMode", "SetLampOnMode"} -> "mode"
      [] t = "GetDisplayInvert" -> "invert_status"
      [] t = "SetDisplayInvert" -> "invert"
      [] t \in {"GetDeviceLabel", "SetDeviceLabel"} -> "label"
      [] t = "GetLanguage" -> "language"

ProvidedFact(t) == CHOOSE n \in PROVIDES(t) : TRUE

\* None as the value of a list-valued fact
NoneList == <<NoneVal>>

\* None as the value of fact n
NoneOf(n) == IF n \in ListFacts THEN NoneList ELSE NoneVal

GetRequiredMixin_Test(s) ==
    LET s1 == AddExpectedResults(s,
                  <<AckGetResult(PID(s.cur), {EXPECTED_FIELD(s.cur)}, NoValues,
                                 "", FALSE)>>)
    IN SendGet(s1, ROOT_DEVICE, PID(s.cur), NoArg)

GetRequiredMixin_VerifyResult(s, r) ==
    IF WasAcked(r) /\ PROVIDES(s.cur) # {}
    THEN SetProperty(s, ProvidedFact(s.cur), r.f[EXPECTED_FIELD(s.cur)])
    ELSE s

GetMixin_Test(s) ==
    LET s1 == AddIfGetSupported(s,
                  <<AckGetResult(PID(s.cur), {EXPECTED_FIELD(s.cur)}, NoValues,
                                 "", FALSE)>>)
    IN SendGet(s1, ROOT_DEVICE, PID(s.cur), NoArg)

GetMixin_VerifyResult(s, r) ==
    IF PROVIDES(s.cur) = {} THEN s
    ELSE SetProperty(s, ProvidedFact(s.cur),
                     IF WasAcked(r) THEN r.f[EXPECTED_FIELD(s.cur)]
                     ELSE NoneOf(ProvidedFact(s.cur)))

(***************************************************************************)
(* Supported Parameters                                                    *)
(***************************************************************************)
\* PidStore values of the parameters named in the lists below
PidValue(name) ==
    CASE name = "PROXIED_DEVICES" -> 16
      [] name = "PROXIED_DEVICE_COUNT" -> 17
      [] name = "SUPPORTED_PARAMETERS" -> 80
      [] name = "PARAMETER_DESCRIPTION" -> 81
      [] name = "DEVICE_INFO" -> 96
      [] name = "LANGUAGE_CAPABILITIES" -> 160
      [] name = "LANGUAGE" -> 176
      [] name = "SOFTWARE_VERSION_LABEL" -> 192
      [] name = "DMX_PERSONALITY" -> 224
      [] name = "DMX_PERSONALITY_DESCRIPTION" -> 225
      [] name = "DMX_START_ADDRESS" -> 240
      [] name = "SLOT_DESCRIPTION" -> 289
      [] name = "DEFAULT_SLOT_VALUE" -> 290
      [] name = "SENSOR_DEFINITION" -> 512
      [] name = "SENSOR_VALUE" -> 513
      [] name = "RECORD_SENSORS" -> 514
      [] name = "IDENTIFY_DEVICE" -> 4096
      [] name = "PERFORM_SELF_TEST" -> 4128
      [] name = "SELF_TEST_DESCRIPTION" -> 4129

MANDATORY_PIDS ==
    {"SUPPORTED_PARAMETERS", "PARAMETER_DESCRIPTION", "DEVICE_INFO",
     "SOFTWARE_VERSION_LABEL", "DMX_START_ADDRESS", "IDENTIFY_DEVICE"}

\* a banned list without the value 1
BANNED_PID_VALUES_From2 == {2, 3}

BANNED_PID_VALUES == {1, 2, 3}

PID_GROUPS ==
    {{"PROXIED_DEVICE_COUNT", "PROXIED_DEVICES"},
     {"LANGUAGE_CAPABILITIES", "LANGUAGE"},
     {"DMX_PERSONALITY", "DMX_PERSONALITY_DESCRIPTION"},
     {"SENSOR_DEFINITION", "SENSOR_VALUE"},
     {"SELF_TEST_DESCRIPTION", "PERFORM_SELF_TEST"}}

\* <<first pid, the pids that must be supported with it>>
PID_DEPENDENCIES ==
    {<<"RECORD_SENSORS", {"SENSOR_VALUE"}>>,
     <<"DEFAULT_SLOT_VALUE", {"SLOT_DESCRIPTION"}>>}

RECURSIVE SelectSeq2(_, _)
\* the elements of sequence q that lie in set keep, in order
SelectSeq2(q, keep) ==
    IF q = <<>> THEN <<>>
    ELSE IF Head(q) \in keep
    THEN <<Head(q)>> \o SelectSeq2(Tail(q), keep)
    ELSE SelectSeq2(Tail(q), keep)

Range(q) == {q[i] : i \in 1..Len(q)}

RECURSIVE Repeat(_, _, _)
\* s after n applications of the one-place operator named by kind
Repeat(s, kind, n) ==
    IF n = 0 THEN s
    ELSE Repeat(IF kind = "warning" THEN AddWarning(s) ELSE AddAdvisory(s),
                kind, n - 1)

GetSupportedParameters_Test(s) ==
    LET s1 == AddExpectedResults(s,
                  <<NackGetResult("SUPPORTED_PARAMETERS", "NR_UNKNOWN_PID", "",
                                  FALSE),
                    AckGetResult("SUPPORTED_PARAMETERS", {}, NoValues, "",
                                 FALSE)>>)
    IN SendGet(s1, ROOT_DEVICE, "SUPPORTED_PARAMETERS", NoArg)

\* a range test that takes 0xffe0 in as well
IsManufacturerPid_ToFFE0(param_id) == param_id >= 32768 /\ param_id <= 65504

\* true for the param_id values appended to manufacturer_parameters
IsManufacturerPid(param_id) == param_id >= 32768 /\ param_id < 65504

GetSupportedParameters_VerifyResult(s, r) ==
    IF ~WasAcked(r)
    THEN SetProperty(SetProperty(s, "manufacturer_parameters", <<>>),
                     "supported_parameters", <<>>)
    ELSE
      LET params == r.f["params"]
          mandatory_pids == {PidValue(p) : p \in MANDATORY_PIDS}
          all == Range(params)
          nbanned == Cardinality({i \in 1..Len(params) :
                                     params[i] \in BANNED_PID_VALUES})
          nmandatory == Cardinality({i \in 1..Len(params) :
                                        /\ params[i] \notin BANNED_PID_VALUES
                                        /\ params[i] \in mandatory_pids})
          supported_parameters ==
              SelectSeq2(params, all \ (BANNED_PID_VALUES \cup mandatory_pids))
          manufacturer_parameters ==
              SelectSeq2(supported_parameters,
                         {x \in all : IsManufacturerPid(x)})
          sup == Range(supported_parameters)
          ngroups == Cardinality({g \in PID_GROUPS :
                                     /\ \E n \in g : PidValue(n) \in sup
                                     /\ \E n \in g : PidValue(n) \notin sup})
          ndeps == Cardinality({d \in PID_DEPENDENCIES :
                                   /\ PidValue(d[1]) \in sup
                                   /\ \E n \in d[2] : PidValue(n) \notin sup})
          s1 == Repeat(Repeat(s, "warning", nbanned), "advisory", nmandatory)
          s2 == SetProperty(s1, "manufacturer_parameters",
                            manufacturer_parameters)
          s3 == SetProperty(s2, "supported_parameters", supported_parameters)
      IN Repeat(s3, "advisory", ngroups + ndeps)

(***************************************************************************)
(* Parameter Description                                                   *)
(***************************************************************************)
\* list.pop(): the list without its last element
Front(q) == SubSeq(q, 1, Len(q) - 1)

GetParamDescription_GetParam(s) ==
    IF Len(s.self.params) = 0 THEN Stop(s)
    ELSE LET s1 == AddExpectedResults(s,
                       <<AckGetResult("PARAMETER_DESCRIPTION", {}, NoValues,
                                      "GetParamDescription._GetParam",
                                      FALSE)>>)
             s2 == [s1 EXCEPT !.self.current_param =
                                  s.self.params[Len(s.self.params)],
                              !.self.params = Front(@)]
         IN SendGet(s2, ROOT_DEVICE, "PARAMETER_DESCRIPTION",
                    s2.self.current_param)

GetParamDescription_Test(s) ==
    LET s1 == [s EXCEPT !.self.params =
                            Property(s, "manufacturer_parameters")]
    IN IF Len(s1.self.params) = 0
       THEN Stop(SetNotRun(s1))
       ELSE GetParamDescription_GetParam(s1)

GetParamDescription_VerifyResult(s, r) ==
    IF ~WasAcked(r) THEN s
    ELSE LET s1 == IF s.self.current_param # r.f["pid"]
                   THEN SetFailed(s) ELSE s
             s2 == WarnIf(s1, r.f["type"] # 0)
         IN WarnIf(s2, r.f["command_class"] > 3)

(***************************************************************************)
(* Proxied Device Count                                                    *)
(***************************************************************************)
\* GetProxiedDeviceCount.Test making the PROXIED_DEVICES cross-check itself,
\* before the request is sent
GetProxiedDeviceCount_Test_WarnsEarly(s) ==
    LET s0 == WarnIf(s, Property(s, "proxied_devices") = NoneList)
        s1 == AddIfGetSupported(s0,
                  <<AckGetResult("PROXIED_DEVICE_COUNT", {}, NoValues, "",
                                 FALSE)>>)
    IN SendGet(s1, ROOT_DEVICE, "PROXIED_DEVICE_COUNT", NoArg)

GetProxiedDeviceCount_Test(s) ==
    LET s1 == AddIfGetSupported(s,
                  <<AckGetResult("PROXIED_DEVICE_COUNT", {}, NoValues, "",
                                 FALSE)>>)
    IN SendGet(s1, ROOT_DEVICE, "PROXIED_DEVICE_COUNT", NoArg)

GetProxiedDeviceCount_VerifyResult(s, r) ==
    IF ~WasAcked(r) THEN s
    ELSE LET proxied_devices == Property(s, "proxied_devices")
         IN IF proxied_devices = NoneList THEN AddWarning(s)
            ELSE IF r.f["list_changed"] = 0
                    /\ r.f["device_count"] # Len(proxied_devices)
            THEN SetFailed(s)
            ELSE s

(***************************************************************************)
(* DMX Personality                                                         *)
(***************************************************************************)
MAX_PERSONALITY_NUMBER == 3

GetPersonality_Test(s) ==
    LET s1 == AddIfGetSupported(s,
                  <<AckGetResult("DMX_PERSONALITY",
                                 {"current_personality", "personality_count"},
                                 NoValues, "", FALSE)>>)
    IN SendGet(s1, ROOT_DEVICE, "DMX_PERSONALITY", NoArg)

GetPersonality_VerifyResult(s, r) ==
    IF ~WasAcked(r) THEN s
    ELSE IF \/ Property(s, "current_personality") # r.f["current_personality"]
            \/ Property(s, "personality_count") # r.f["personality_count"]
    THEN SetFailed(s)
    ELSE s

GetPersonalities_GetPersonality(s0) ==
    LET s == [s0 EXCEPT !.self.current_index = @ + 1]
    IN IF s.self.current_index > s.self.personality_count
       THEN LET s1 == IF s.self.personality_count = 0 THEN SetNotRun(s) ELSE s
            IN Stop(SetProperty(s1, "personalities", s.self.personalities))
       ELSE IF s.self.current_index >= MAX_PERSONALITY_NUMBER
       THEN Stop(SetFailedBecause(s,
                Message("Could not find all personalities", 0, 0)))
       ELSE LET s1 == AddIfGetSupported(s,
                          <<AckGetResult("DMX_PERSONALITY_DESCRIPTION",
                                {"slots_required", "name"},
                                {<<"personality", s.self.current_index>>},
                                "GetPersonalities._GetPersonality", FALSE)>>)
            IN SendGet(s1, ROOT_DEVICE, "DMX_PERSONALITY_DESCRIPTION",
                       s.self.current_index)

GetPersonalities_Test(s) ==
    GetPersonalities_GetPersonality(
        [s EXCEPT !.self.personalities = <<>>,
                  !.self.personality_count = Property(s, "personality_count"),
                  !.self.current_index = 0])

GetPersonalities_VerifyResult(s, r) ==
    IF WasAcked(r)
    THEN [s EXCEPT !.self.personalities = Append(@, r.f)]
    ELSE s

\* a choice that takes the first personality whatever its number
PickPersonality_First(personalities, current) == personalities[1]

\* the first personality whose number differs from current, else the first
PickPersonality(personalities, current) ==
    IF \E i \in 1..Len(personalities) :
           personalities[i]["personality"] # current
    THEN personalities[CHOOSE i \in 1..Len(personalities) :
             /\ personalities[i]["personality"] # current
             /\ \A j \in 1..(i - 1) :
                    personalities[j]["personality"] = current]
    ELSE personalities[1]

SetPersonality_Test(s) ==
    LET count == Property(s, "personality_count")
    IN IF count = NoneVal \/ count = 0
       THEN LET s1 == AddExpectedResults(s,
                          <<NackSetResult("DMX_PERSONALITY", "NR_UNKNOWN_PID",
                                          "")>>)
                s2 == [s1 EXCEPT !.self.new_personality =
                           [personality |-> 1, slots_required |-> NoneVal,
                            name |-> 0]]
            IN SendSet(s2, ROOT_DEVICE, "DMX_PERSONALITY", 1)
       ELSE LET personalities == Property(s, "personalities")
                current == Property(s, "current_personality")
            IN IF Len(personalities) = 0 THEN Stop(SetFailed(s))
               ELSE LET s1 == [s EXCEPT !.self.new_personality =
                                   PickPersonality(personalities, current)]
                        s2 == AddIfSetSupported(s1,
                                  <<AckSetResult("DMX_PERSONALITY",
                                        "SetPersonality.VerifySet")>>)
                    IN SendSet(s2, ROOT_DEVICE, "DMX_PERSONALITY",
                               s1.self.new_personality["personality"])

SetPersonality_VerifySet(s) ==
    LET s1 == AddIfGetSupported(s,
                  <<AckGetResult("DMX_PERSONALITY", {},
                        {<<"current_personality",
                           s.self.new_personality["personality"]>>},
                        "SetPersonality.VerifyDeviceInfo", FALSE)>>)
    IN SendGet(s1, ROOT_DEVICE, "DMX_PERSONALITY", NoArg)

SetPersonality_VerifyDeviceInfo(s) ==
    LET s1 == AddIfGetSupported(s,
                  <<AckGetResult("DEVICE_INFO", {},
                        {<<"current_personality",
                           s.self.new_personality["personality"]>>,
                         <<"dmx_footprint",
                           s.self.new_personality["slots_required"]>>},
                        "", FALSE)>>)
    IN SendGet(s1, ROOT_DEVICE, "DEVICE_INFO", NoArg)

(***************************************************************************)
(* Sensor Definition                                                       *)
(***************************************************************************)
\* the codes RDMConstants names: keys of SENSOR_TYPE_TO_NAME, UNIT_TO_NAME
\* and PREFIX_TO_NAME
SENSOR_TYPE_CODES == (0..32) \cup {127}

UNIT_CODES == 0..28

PREFIX_CODES == (0..10) \cup (17..26)

\* GetSensorDefinition._sensors maps a sensor index to its definition; the
\* model keeps the set of definitions, each carrying its sensor_number
SensorKeys(sensors) == {d["sensor_number"] : d \in sensors}

MaxOf(S) == CHOOSE x \in S : \A y \in S : y <= x

\* max() of an empty key list raises ValueError
GetSensorDefinition_MissingSensorWarning(s) ==
    IF s.self.sensors = {} THEN Raise(s)
    ELSE LET max_sensor == MaxOf(SensorKeys(s.self.sensors))
             missing_sensors == {i \in Range(s.self.sensor_holes) :
                                    i < max_sensor}
         IN WarnIf(s, missing_sensors # {})

GetSensorDefinition_CheckForSensor(s) ==
    IF PidSupported(s) /\ s.self.current_index = MAX_SENSOR_INDEX
    THEN LET n == Cardinality(s.self.sensors)
             s1 == WarnIf(s, n # Property(s, "sensor_count"))
             s2 == SetProperty(s1, "sensor_definitions", s.self.sensors)
             s3 == GetSensorDefinition_MissingSensorWarning(s2)
         IN Stop(s3)
    ELSE LET s1 == IF PidSupported(s)
                   THEN AddExpectedResults(s,
                            <<NackGetResult("SENSOR_DEFINITION",
                                  "NR_DATA_OUT_OF_RANGE",
                                  "GetSensorDefinition._AddToHoles", FALSE),
                              AckGetResult("SENSOR_DEFINITION", {}, NoValues,
                                  "GetSensorDefinition._CheckForSensor",
                                  FALSE)>>)
                   ELSE SetProperty(
                            AddExpectedResults(s,
                                <<NackGetResult("SENSOR_DEFINITION",
                                      "NR_UNKNOWN_PID", "", FALSE)>>),
                            "sensor_definitions", {})
             s2 == [s1 EXCEPT !.self.current_index = @ + 1]
         IN SendGet(s2, ROOT_DEVICE, "SENSOR_DEFINITION",
                    s2.self.current_index)

GetSensorDefinition_Test(s) ==
    GetSensorDefinition_CheckForSensor(
        [s EXCEPT !.self.sensors = {},
                  !.self.current_index = -1,
                  !.self.sensor_holes = <<>>])

GetSensorDefinition_AddToHoles(s) ==
    GetSensorDefinition_CheckForSensor(
        [s EXCEPT !.self.sensor_holes = Append(@, s.self.current_index)])

\* the advisories of the six CheckCondition calls
CheckConditions(s, f) ==
    LET a1 == AdviseIf(s, f["range_min"] > f["range_max"])
        a2 == AdviseIf(a1, f["range_min"] = f["range_max"])
        a3 == AdviseIf(a2, f["normal_min"] > f["normal_max"])
        a4 == AdviseIf(a3, f["normal_min"] = f["normal_max"])
        a5 == AdviseIf(a4, f["normal_min"] < f["range_min"])
    IN AdviseIf(a5, f["normal_max"] > f["range_max"])

GetSensorDefinition_VerifyResult(s, r) ==
    IF ~WasAcked(r) THEN s
    ELSE IF s.self.current_index # r.f["sensor_number"] THEN AddWarning(s)
    ELSE LET f == r.f
             s1 == [s EXCEPT !.self.sensors =
                        {d \in @ : d["sensor_number"] # f["sensor_number"]}
                        \cup {f}]
             s2 == WarnIf(s1, f["type"] \notin SENSOR_TYPE_CODES)
             s3 == WarnIf(s2, f["unit"] \notin UNIT_CODES)
             s4 == WarnIf(s3, f["prefix"] \notin PREFIX_CODES)
             s5 == CheckConditions(s4, f)
         IN WarnIf(s5, f["supports_recording"] \div 4 # 0)

(***************************************************************************)
(* Identify Device                                                         *)
(***************************************************************************)
\* Python's not, on a value sent as 0 or 1
Not(x) == IF x = 0 THEN 1 ELSE 0

SetIdentifyDevice_Test(s) ==
    LET identify_mode == Property(s, "identify_state")
        s1 == [s EXCEPT !.self.identify_mode = identify_mode,
                        !.self.new_mode = Not(identify_mode)]
        s2 == AddExpectedResults(s1,
                  <<AckSetResult("IDENTIFY_DEVICE",
                                 "SetIdentifyDevice.VerifyIdentifyMode")>>)
    IN SendSet(s2, ROOT_DEVICE, "IDENTIFY_DEVICE", s1.self.new_mode)

\* VerifyIdentifyMode calling ResetMode itself instead of registering it as
\* the continuation of the read-back
SetIdentifyDevice_VerifyIdentifyMode_CallsReset(s) ==
    LET s1 == AddExpectedResults(s,
                  <<AckGetResult("IDENTIFY_DEVICE", {},
                                 {<<"identify_state", s.self.new_mode>>},
                                 "", FALSE)>>)
        s2 == SendGet(s1, ROOT_DEVICE, "IDENTIFY_DEVICE", NoArg)
    IN SendSet(s2, ROOT_DEVICE, "IDENTIFY_DEVICE", s.self.identify_mode)

SetIdentifyDevice_VerifyIdentifyMode(s) ==
    LET s1 == AddExpectedResults(s,
                  <<AckGetResult("IDENTIFY_DEVICE", {},
                                 {<<"identify_state", s.self.new_mode>>},
                                 "SetIdentifyDevice.ResetMode", FALSE)>>)
    IN SendGet(s1, ROOT_DEVICE, "IDENTIFY_DEVICE", NoArg)

\* a reset that sends the mode the test had changed to
SetIdentifyDevice_ResetMode_KeepsNew(s) ==
    LET s1 == AddExpectedResults(s,
                  <<AckSetResult("IDENTIFY_DEVICE", "")>>)
    IN SendSet(s1, ROOT_DEVICE, "IDENTIFY_DEVICE", s.self.new_mode)

SetIdentifyDevice_ResetMode(s) ==
    LET s1 == AddExpectedResults(s,
                  <<AckSetResult("IDENTIFY_DEVICE", "")>>)
    IN SendSet(s1, ROOT_DEVICE, "IDENTIFY_DEVICE", s.self.identify_mode)

(***************************************************************************)
(* Sensor Values                                                           *)
(***************************************************************************)
RECURSIVE DictValues(_)
\* the values of a dict keyed by sensor number, in key order
DictValues(sensors) ==
    IF sensors = {} THEN <<>>
    ELSE LET first == CHOOSE d \in sensors :
                          \A e \in sensors :
                              d["sensor_number"] <= e["sensor_number"]
         IN <<first>> \o DictValues(sensors \ {first})

HIGHEST_LOWEST_MASK == 2

RECORDED_VALUE_MASK == 1

\* x & mask for a mask of one bit
BitSet(x, mask) == (x \div mask) % 2 = 1

GetSensorValues_GetSensorValue(s) ==
    IF s.self.queue = <<>>
    THEN Stop(SetProperty(s, "sensor_values", s.self.sensor_values))
    ELSE LET s1 == AddExpectedResults(s,
                       <<AckGetResult("SENSOR_VALUE", {}, NoValues,
                                      "GetSensorValues._GetNextSensor",
                                      FALSE)>>)
         IN SendGet(s1, ROOT_DEVICE, "SENSOR_VALUE",
                    s.self.queue[1]["sensor_number"])

GetSensorValues_Test(s) ==
    LET s1 == [s EXCEPT !.self.queue =
                            DictValues(Property(s, "sensor_definitions")),
                        !.self.sensor_values = <<>>]
    IN IF s1.self.queue # <<>>
       THEN GetSensorValues_GetSensorValue(s1)
       ELSE SendGet(AddIfGetSupported(s1,
                        <<NackGetResult("SENSOR_VALUE",
                                        "NR_DATA_OUT_OF_RANGE", "", FALSE)>>),
                    ROOT_DEVICE, "SENSOR_VALUE", 0)

GetSensorValues_GetNextSensor(s) ==
    GetSensorValues_GetSensorValue([s EXCEPT !.self.queue = Tail(@)])

GetSensorValues_CheckValueWithinRange(s, f, name, min, max) ==
    WarnIf(s, f[name] < min \/ f[name] > max)

GetSensorValues_CheckForZeroField(s, f, name) == WarnIf(s, f[name] # 0)

\* a VerifyResult that takes a mismatched sensor number for a failure
GetSensorValues_VerifyResult_MismatchFails(s, r) ==
    IF WasAcked(r)
       /\ s.self.queue[1]["sensor_number"] # r.f["sensor_number"]
    THEN Stop(SetFailed(AddWarning(s)))
    ELSE s

GetSensorValues_VerifyResult(s, r) ==
    IF ~WasAcked(r) THEN s
    ELSE LET sensor_def == s.self.queue[1]
             f == r.f
             range_min == sensor_def["range_min"]
             range_max == sensor_def["range_max"]
         IN IF sensor_def["sensor_number"] # f["sensor_number"]
            THEN AddWarning(s)
            ELSE
              LET s1 == [s EXCEPT !.self.sensor_values = Append(@, f)]
                  s2 == GetSensorValues_CheckValueWithinRange(
                            s1, f, "present_value", range_min, range_max)
                  s3 == IF BitSet(sensor_def["supports_recording"],
                                  HIGHEST_LOWEST_MASK)
                        THEN GetSensorValues_CheckValueWithinRange(
                                 GetSensorValues_CheckValueWithinRange(
                                     s2, f, "lowest", range_min, range_max),
                                 f, "highest", range_min, range_max)
                        ELSE GetSensorValues_CheckForZeroField(
                                 GetSensorValues_CheckForZeroField(
                                     s2, f, "lowest"),
                                 f, "highest")
              IN IF BitSet(sensor_def["supports_recording"],
                           RECORDED_VALUE_MASK)
                 THEN GetSensorValues_CheckValueWithinRange(
                          s3, f, "recorded", range_min, range_max)
                 ELSE GetSensorValues_CheckForZeroField(s3, f, "recorded")

(***************************************************************************)
(* Self Test Description                                                   *)
(***************************************************************************)
\* a scan that ends one self test later
FindSelfTests_CheckForSelfTest_OneMore(s) ==
    IF s.self.current_index = MAX_SELF_TEST + 1
    THEN Stop(SetProperty(s, "self_test_descriptions", s.self.self_tests))
    ELSE LET s1 == IF PidSupported(s)
                   THEN AddExpectedResults(s,
                            <<NackGetResult("SELF_TEST_DESCRIPTION",
                                  "NR_DATA_OUT_OF_RANGE",
                                  "FindSelfTests._CheckForSelfTest", FALSE),
                              AckGetResult("SELF_TEST_DESCRIPTION", {},
                                  NoValues,
                                  "FindSelfTests._CheckForSelfTest", FALSE)>>)
                   ELSE AddExpectedResults(s,
                            <<NackGetResult("SELF_TEST_DESCRIPTION",
                                  "NR_UNKNOWN_PID", "", FALSE)>>)
             s2 == [s1 EXCEPT !.self.current_index = @ + 1]
         IN SendGet(s2, ROOT_DEVICE, "SELF_TEST_DESCRIPTION",
                    s2.self.current_index)

FindSelfTests_CheckForSelfTest(s) ==
    IF s.self.current_index = MAX_SELF_TEST
    THEN Stop(SetProperty(s, "self_test_descriptions", s.self.self_tests))
    ELSE LET s1 == IF PidSupported(s)
                   THEN AddExpectedResults(s,
                            <<NackGetResult("SELF_TEST_DESCRIPTION",
                                  "NR_DATA_OUT_OF_RANGE",
                                  "FindSelfTests._CheckForSelfTest", FALSE),
                              AckGetResult("SELF_TEST_DESCRIPTION", {},
                                  NoValues,
                                  "FindSelfTests._CheckForSelfTest", FALSE)>>)
                   ELSE AddExpectedResults(s,
                            <<NackGetResult("SELF_TEST_DESCRIPTION",
                                  "NR_UNKNOWN_PID", "", FALSE)>>)
             s2 == [s1 EXCEPT !.self.current_index = @ + 1]
         IN SendGet(s2, ROOT_DEVICE, "SELF_TEST_DESCRIPTION",
                    s2.self.current_index)

FindSelfTests_Test(s) ==
    FindSelfTests_CheckForSelfTest(
        [s EXCEPT !.self.self_tests = {}, !.self.current_index = 0])

FindSelfTests_VerifyResult(s, r) ==
    IF WasAcked(r)
    THEN IF s.self.current_index # r.f["test_number"]
         THEN AddWarning(s)
         ELSE [s EXCEPT !.self.self_tests =
                   {d \in @ : d[1] # s.self.current_index}
                   \cup {<<s.self.current_index, r.f["description"]>>}]
    ELSE s

(***************************************************************************)
(* Power State                                                             *)
(***************************************************************************)
ALLOWED_STATES == <<0, 1, 2, 255>>

GetPowerState_VerifyResult(s, r) ==
    LET s1 == GetMixin_VerifyResult(s, r)
    IN IF WasAcked(r)
       THEN WarnIf(s1, r.f["power_state"] \notin Range(ALLOWED_STATES))
       ELSE s1

SetPowerState_OldValue(s) == Property(s, "power_state")

\* a new value one above the old one, whether or not a state has that value
SetPowerState_NewValue_PlusOne(s) ==
    LET old_value == Property(s, "power_state")
    IN IF old_value \notin Range(ALLOWED_STATES)
       THEN ALLOWED_STATES[1]
       ELSE old_value + 1

\* list.index() raises ValueError for a value that is not in the list
SetPowerState_NewValue(s) ==
    LET old_value == Property(s, "power_state")
        length == Len(ALLOWED_STATES)
    IN IF old_value \notin Range(ALLOWED_STATES)
       THEN ALLOWED_STATES[1]
       ELSE ALLOWED_STATES[((old_value + 1) % length) + 1]

(***************************************************************************)
(* Lamp On Mode and Display Invert                                         *)
(***************************************************************************)
SetLampOnMode_ALLOWED_MODES == <<0, 1, 2>>

SetLampOnMode_OldValue(s) == Property(s, "lamp_on_mode")

SetLampOnMode_NewValue(s) ==
    LET old_value == SetLampOnMode_OldValue(s)
    IN IF old_value \notin Range(SetLampOnMode_ALLOWED_MODES)
       THEN SetLampOnMode_ALLOWED_MODES[1]
       ELSE SetLampOnMode_ALLOWED_MODES[
                ((old_value + 1) % Len(SetLampOnMode_ALLOWED_MODES)) + 1]

SetDisplayInvert_ALLOWED_MODES == <<0, 1, 2>>

SetDisplayInvert_OldValue(s) == Property(s, "display_invert")

SetDisplayInvert_NewValue(s) ==
    LET old_value == SetDisplayInvert_OldValue(s)
    IN IF old_value \notin Range(SetDisplayInvert_ALLOWED_MODES)
       THEN SetDisplayInvert_ALLOWED_MODES[1]
       ELSE SetDisplayInvert_ALLOWED_MODES[
                ((old_value + 1) % Len(SetDisplayInvert_ALLOWED_MODES)) + 1]

\* NewValue() of the running descriptor
NewValue(s) ==
    CASE s.cur = "SetLampOnMode" -> SetLampOnMode_NewValue(s)
      [] s.cur = "SetDisplayInvert" -> SetDisplayInvert_NewValue(s)
      [] s.cur = "SetPowerState" -> SetPowerState_NewValue(s)

\* TestMixins.SetUInt8Mixin: set the new value, then read it back
SetMixin_Test(s) ==
    LET s1 == AddIfSetSupported(s,
                  <<AckSetResult(PID(s.cur), "SetMixin.VerifySet")>>)
    IN SendSet(s1, ROOT_DEVICE, PID(s.cur), NewValue(s))

SetMixin_VerifySet(s) ==
    LET s1 == AddExpectedResults(s,
                  <<AckGetResult(PID(s.cur), {},
                        {<<EXPECTED_FIELD(s.cur), NewValue(s)>>},
                        "", FALSE)>>)
    IN SendGet(s1, ROOT_DEVICE, PID(s.cur), NoArg)

\* reset back to the old value; a falsy old value sends nothing
SetPowerState_ResetState(s) ==
    IF SetPowerState_OldValue(s) = 0 \/ SetPowerState_OldValue(s) = NoneVal
    THEN s
    ELSE SendSet(s, ROOT_DEVICE, PID(s.cur), SetPowerState_OldValue(s))

(***************************************************************************)
(* Device Label                                                            *)
(***************************************************************************)
\* the label TestMixins.SetLabelMixin writes
TEST_LABEL == 1

\* TestMixins.SetLabelMixin: set the label, then read it back
SetLabelMixin_Test(s) ==
    LET s1 == AddIfSetSupported(s,
                  <<AckSetResult(PID(s.cur), "SetLabelMixin.VerifySet")>>)
    IN SendSet(s1, ROOT_DEVICE, PID(s.cur), TEST_LABEL)

SetLabelMixin_VerifySet(s) ==
    LET s1 == AddExpectedResults(s,
                  <<AckGetResult(PID(s.cur), {},
                        {<<EXPECTED_FIELD(s.cur), TEST_LABEL>>}, "", FALSE)>>)
    IN SendGet(s1, ROOT_DEVICE, PID(s.cur), NoArg)

(***************************************************************************)
(* Language                                                                *)
(***************************************************************************)
Languages == 1..MaxLanguages

\* the language code 'en'
EN == 1

\* 'zz', the language SetUnsupportedLanguage takes no responder to have
ZZ == 2

\* the orders in which a set of language codes may be listed
Listings == {q \in [1..MaxLanguages -> Languages] : Range(q) = Languages}

\* list(S): the members of S in the order the run lists them
ListOf(s, S) == SelectSeq2(s.listing, S)

GetLanguageCapabilities_Test(s) ==
    LET s1 == AddIfGetSupported(s,
                  <<AckGetResult("LANGUAGE_CAPABILITIES", {"languages"},
                                 NoValues, "", FALSE)>>)
    IN SendGet(s1, ROOT_DEVICE, "LANGUAGE_CAPABILITIES", NoArg)

\* a NACK publishes the empty list, an ACK the set of the languages listed
GetLanguageCapabilities_VerifyResult(s, r) ==
    IF ~WasAcked(r)
    THEN SetProperty(s, "languages_capabilities", {})
    ELSE LET languages == r.f["languages"]
             s1 == WarnIf(s, Len(languages) = 0)
             twice == {i \in 1..Len(languages) :
                          \E j \in 1..(i - 1) : languages[j] = languages[i]}
             s2 == Repeat(s1, "advisory", Cardinality(twice))
         IN SetProperty(s2, "languages_capabilities", Range(languages))

SetLanguage_Test(s) ==
    LET ack == AckSetResult("LANGUAGE", "SetLanguage.VerifySet")
        nack == NackSetResult("LANGUAGE", "NR_UNSUPPORTED_COMMAND_CLASS", "")
        available_langugages ==
            ListOf(s, Property(s, "languages_capabilities"))
        SetTo(s1, new_language) ==
            SendSet([s1 EXCEPT !.self.new_language = new_language],
                    ROOT_DEVICE, "LANGUAGE", new_language)
    IN IF available_langugages # <<>>
       THEN IF Len(available_langugages) > 1
            THEN LET s1 == AddIfSetSupported(s, <<ack>>)
                 IN IF available_langugages[1] # Property(s, "language")
                    THEN SetTo(s1, available_langugages[1])
                    ELSE IF Len(available_langugages) < 3
                    THEN Raise(s1)
                    ELSE SetTo(s1, available_langugages[3])
            ELSE SetTo(AddIfSetSupported(s, <<ack, nack>>),
                       available_langugages[1])
       ELSE SetTo(AddIfSetSupported(s, <<nack>>), EN)

\* SetLanguage.VerifySet asking only that the reply carries a language
SetLanguage_VerifySet_AnyValue(s) ==
    LET s1 == AddExpectedResults(s,
                  <<AckGetResult("LANGUAGE", {"language"}, NoValues, "",
                                 FALSE)>>)
    IN SendGet(s1, ROOT_DEVICE, "LANGUAGE", NoArg)

SetLanguage_VerifySet(s) ==
    LET s1 == AddExpectedResults(s,
                  <<AckGetResult("LANGUAGE", {},
                        {<<"language", s.self.new_language>>}, "", FALSE)>>)
    IN SendGet(s1, ROOT_DEVICE, "LANGUAGE", NoArg)

\* a Test() that sends the SET whether or not 'zz' is advertised
SetUnsupportedLanguage_Test_SendsAnyway(s) ==
    LET s1 == AddIfSetSupported(s,
                  <<NackSetResult("LANGUAGE", "NR_UNSUPPORTED_COMMAND_CLASS",
                                  ""),
                    NackSetResult("LANGUAGE", "NR_DATA_OUT_OF_RANGE", "")>>)
    IN SendSet(s1, ROOT_DEVICE, "LANGUAGE", ZZ)

SetUnsupportedLanguage_Test(s) ==
    IF ZZ \in Property(s, "languages_capabilities")
    THEN Stop(SetBroken(s))
    ELSE LET s1 == AddIfSetSupported(s,
                       <<NackSetResult("LANGUAGE",
                                       "NR_UNSUPPORTED_COMMAND_CLASS", ""),
                         NackSetResult("LANGUAGE", "NR_DATA_OUT_OF_RANGE",
                                       "")>>)
         IN SendSet(s1, ROOT_DEVICE, "LANGUAGE", ZZ)

(***************************************************************************)
(* DMX Start Address: set                                                  *)
(***************************************************************************)
\* a choice of address that goes one up and never wraps to 1
SetStartAddress_Test_NoWrap(s) ==
    LET footprint == Property(s, "dmx_footprint")
        current_address == Property(s, "dmx_address")
    IN IF footprint = 0 \/ current_address = ZERO_FOOTPRINT_ADDRESS
       THEN LET s1 == AddExpectedResults(
                          [s EXCEPT !.self.start_address = 1],
                          <<NackSetResult("DMX_START_ADDRESS",
                                          "NR_UNKNOWN_PID", "")>>)
            IN SendSet(s1, ROOT_DEVICE, "DMX_START_ADDRESS", 1)
       ELSE LET start_address == current_address + 1
                s1 == AddExpectedResults(
                          [s EXCEPT !.self.start_address = start_address],
                          <<AckSetResult("DMX_START_ADDRESS",
                                         "SetStartAddress.VerifySet")>>)
            IN SendSet(s1, ROOT_DEVICE, "DMX_START_ADDRESS", start_address)

SetStartAddress_Test(s) ==
    LET footprint == Property(s, "dmx_footprint")
        current_address == Property(s, "dmx_address")
    IN IF footprint = 0 \/ current_address = ZERO_FOOTPRINT_ADDRESS
       THEN LET s1 == AddExpectedResults(
                          [s EXCEPT !.self.start_address = 1],
                          <<NackSetResult("DMX_START_ADDRESS",
                                          "NR_UNKNOWN_PID", "")>>)
            IN SendSet(s1, ROOT_DEVICE, "DMX_START_ADDRESS", 1)
       ELSE LET start_address ==
                    IF footprint # MAX_DMX_ADDRESS
                    THEN IF current_address + 1 + footprint
                                > MAX_DMX_ADDRESS + 1
                         THEN 1
                         ELSE current_address + 1
                    ELSE 1
                s1 == AddExpectedResults(
                          [s EXCEPT !.self.start_address = start_address],
                          <<AckSetResult("DMX_START_ADDRESS",
                                         "SetStartAddress.VerifySet")>>)
            IN SendSet(s1, ROOT_DEVICE, "DMX_START_ADDRESS", start_address)

SetStartAddress_VerifySet(s) ==
    LET s1 == AddExpectedResults(s,
                  <<AckGetResult("DMX_START_ADDRESS", {},
                        {<<"dmx_address", s.self.start_address>>},
                        "SetStartAddress.VerifyDeviceInfo", FALSE)>>)
    IN SendGet(s1, ROOT_DEVICE, "DMX_START_ADDRESS", NoArg)

SetStartAddress_VerifyDeviceInfo(s) ==
    LET s1 == AddExpectedResults(s,
                  <<AckGetResult("DEVICE_INFO", {},
                        {<<"dmx_start_address", s.self.start_address>>},
                        "", FALSE)>>)
    IN SendGet(s1, ROOT_DEVICE, "DEVICE_INFO", NoArg)

(***************************************************************************)
(* Real Time Clock                                                         *)
(***************************************************************************)
\* the readings datetime.now() may give
Clock == 0..MaxClock

\* SetRealTimeClock.Test expecting the ACK only at some times of the day
SetRealTimeClock_Test_ExpectsByTime(s) ==
    LET s1 == IF s.now = 0
              THEN AddIfSetSupported(s,
                       <<AckSetResult("REAL_TIME_CLOCK", "")>>)
              ELSE AddExpectedResults(s,
                       <<NackSetResult("REAL_TIME_CLOCK",
                                       "NR_DATA_OUT_OF_RANGE", "")>>)
    IN SendSet(s1, ROOT_DEVICE, "REAL_TIME_CLOCK", s.now)

\* the six fields of the time sent are those of the clock reading n
SetRealTimeClock_Test(s) ==
    LET n == s.now
        s1 == AddIfSetSupported(s, <<AckSetResult("REAL_TIME_CLOCK", "")>>)
    IN SendSet(s1, ROOT_DEVICE, "REAL_TIME_CLOCK", n)

(***************************************************************************)
(* Slot Info                                                               *)
(***************************************************************************)
\* the keys of RDMConstants.SLOT_TYPE_TO_NAME
SLOT_TYPE_CODES == (0..7) \cup {255}

\* the keys of RDMConstants.SLOT_DEFINITION_TO_NAME
SLOT_DEFINITION_CODES ==
    {1, 2, 257, 258} \cup (513..521) \cup {528} \cup (769..772)
    \cup (1025..1033) \cup (1281..1287) \cup {65535}

\* RDMConstants.SLOT_TYPES['ST_PRIMARY']
ST_PRIMARY == 0

GetSlotInfo_Test(s) ==
    SendGet(AddIfGetSupported(s,
                <<AckGetResult("SLOT_INFO", {}, NoValues, "", FALSE)>>),
            ROOT_DEVICE, "SLOT_INFO", NoArg)

RECURSIVE GetSlotInfo_CheckSlots(_, _, _)
\* the loop over fields['slots'] that ends VerifyResult
GetSlotInfo_CheckSlots(s, list, slots) ==
    IF list = <<>> THEN s
    ELSE LET slot == Head(list)
             s1 == WarnIf(s, slot["slot_type"] \notin SLOT_TYPE_CODES)
             s2 == IF slot["slot_type"] = ST_PRIMARY
                   THEN WarnIf(s1, slot["slot_label_id"]
                                       \notin SLOT_DEFINITION_CODES)
                   ELSE WarnIf(s1, slot["slot_label_id"] \notin slots)
         IN GetSlotInfo_CheckSlots(s2, Tail(list), slots)

GetSlotInfo_VerifyResult(s, r) ==
    IF ~WasAcked(r)
    THEN SetProperty(SetProperty(s, "slot_info", <<>>), "defined_slots", {})
    ELSE LET list == r.f["slots"]
             slots == {list[i]["slot_offset"] : i \in DOMAIN list}
             s1 == SetProperty(s, "slot_info", list)
             s2 == SetProperty(s1, "defined_slots", slots)
         IN GetSlotInfo_CheckSlots(s2, list, slots)

(***************************************************************************)
(* Slot Description                                                        *)
(***************************************************************************)
RECURSIVE ListOfSet(_)
\* list(set) for a set of small integers, which iterates in increasing
\* order
ListOfSet(S) ==
    IF S = {} THEN <<>>
    ELSE LET first == CHOOSE x \in S : \A y \in S : x <= y
         IN <<first>> \o ListOfSet(S \ {first})

GetSlotDescriptions_GetSlotDescription(s) ==
    IF s.self.slots = <<>> THEN Stop(s)
    ELSE LET s1 == AddIfGetSupported(s,
                       <<AckGetResult("SLOT_DESCRIPTION", {}, NoValues,
                                      "GetSlotDescriptions._GetNextSlot",
                                      FALSE)>>)
         IN SendGet(s1, ROOT_DEVICE, "SLOT_DESCRIPTION", s.self.slots[1])

GetSlotDescriptions_Test(s) ==
    LET s1 == [s EXCEPT !.self.slots =
                            ListOfSet(Property(s, "defined_slots"))]
    IN IF s1.self.slots # <<>>
       THEN GetSlotDescriptions_GetSlotDescription(s1)
       ELSE SendGet(AddIfGetSupported(s1,
                        <<NackGetResult("SLOT_DESCRIPTION",
                                        "NR_DATA_OUT_OF_RANGE", "", FALSE)>>),
                    ROOT_DEVICE, "SLOT_DESCRIPTION", 0)

GetSlotDescriptions_GetNextSlot(s) ==
    GetSlotDescriptions_GetSlotDescription([s EXCEPT !.self.slots = Tail(@)])

\* the message of the warning is formatted from self._current_index, an
\* attribute this class never assigns: the AttributeError is raised before
\* AddWarning is entered
GetSlotDescriptions_VerifyResult(s, r) ==
    IF ~WasAcked(r) THEN s
    ELSE IF s.self.slots[1] # r.f["slot_number"] THEN Raise(s)
    ELSE s

(***************************************************************************)
(* Undefined sensors, reset and record                                     *)
(***************************************************************************)
GetUndefinedSensorValues_GetSensorValue(s) ==
    IF s.self.missing_sensors = <<>> THEN Stop(s)
    ELSE LET s1 == AddIfGetSupported(s,
                       <<NackGetResult("SENSOR_VALUE", "NR_DATA_OUT_OF_RANGE",
                             "GetUndefinedSensorValues._GetSensorValue",
                             FALSE)>>)
             s2 == [s1 EXCEPT !.self.missing_sensors = Tail(@)]
         IN SendGet(s2, ROOT_DEVICE, "SENSOR_VALUE",
                    s.self.missing_sensors[1])

\* xrange(0, 0xff) is the range of indices 0..MAX_SENSOR_INDEX
GetUndefinedSensorValues_Test(s) ==
    LET sensors == SensorKeys(Property(s, "sensor_definitions"))
        s1 == [s EXCEPT !.self.missing_sensors =
                            ListOfSet((0..MAX_SENSOR_INDEX) \ sensors)]
    IN IF s1.self.missing_sensors # <<>>
       THEN GetUndefinedSensorValues_GetSensorValue(s1)
       ELSE Stop(SetNotRun(s1))

ResetSensorValue_ResetSensor(s) ==
    IF s.self.queue = <<>> THEN Stop(s)
    ELSE LET s1 == AddExpectedResults(s,
                       <<AckSetResult("SENSOR_VALUE",
                                      "ResetSensorValue._ResetNextSensor")>>)
         IN SendSet(s1, ROOT_DEVICE, "SENSOR_VALUE",
                    s.self.queue[1]["sensor_number"])

ResetSensorValue_Test(s) ==
    LET s1 == [s EXCEPT !.self.queue =
                            DictValues(Property(s, "sensor_definitions")),
                        !.self.sensor_values = <<>>]
    IN IF s1.self.queue # <<>>
       THEN ResetSensorValue_ResetSensor(s1)
       ELSE SendSet(AddIfSetSupported(s1,
                        <<NackSetResult("SENSOR_VALUE",
                                        "NR_DATA_OUT_OF_RANGE", "")>>),
                    ROOT_DEVICE, "SENSOR_VALUE", 0)

ResetSensorValue_ResetNextSensor(s) ==
    ResetSensorValue_ResetSensor([s EXCEPT !.self.queue = Tail(@)])

RecordSensorValues_RecordSensor(s) ==
    IF s.self.queue = <<>> THEN Stop(s)
    ELSE LET sensor_def == s.self.queue[1]
             s1 == IF BitSet(sensor_def["supports_recording"],
                             RECORDED_VALUE_MASK)
                   THEN AddExpectedResults(s,
                            <<AckSetResult("RECORD_SENSORS",
                                  "RecordSensorValues._RecordNextSensor")>>)
                   ELSE AddIfSetSupported(s,
                            <<NackSetResult("RECORD_SENSORS",
                                  "NR_DATA_OUT_OF_RANGE",
                                  "RecordSensorValues._RecordNextSensor")>>)
         IN SendSet(s1, ROOT_DEVICE, "RECORD_SENSORS",
                    sensor_def["sensor_number"])

RecordSensorValues_Test(s) ==
    LET s1 == [s EXCEPT !.self.queue =
                            DictValues(Property(s, "sensor_definitions")),
                        !.self.sensor_values = <<>>]
    IN IF s1.self.queue # <<>>
       THEN RecordSensorValues_RecordSensor(s1)
       ELSE SendSet(AddIfSetSupported(s1,
                        <<NackSetResult("RECORD_SENSORS",
                                        "NR_DATA_OUT_OF_RANGE", "")>>),
                    ROOT_DEVICE, "RECORD_SENSORS", 0)

RecordSensorValues_RecordNextSensor(s) ==
    RecordSensorValues_RecordSensor([s EXCEPT !.self.queue = Tail(@)])

(***************************************************************************)
(* Dispatch to the running descriptor's methods                            *)
(***************************************************************************)
Test(t, s) ==
    CASE t = "GetDeviceInfo" -> GetDeviceInfo_Test(s)
      [] t = "GetDeviceInfoWithData" -> GetDeviceInfoWithData_Test(s)
      [] t = "FindSubDevices" -> FindSubDevices_Test(s)
      [] t = "ClearCommsStatus" -> ClearCommsStatus_Test(s)
      [] t = "GetPersonalityDescription" -> GetPersonalityDescription_Test(s)
      [] t = "GetStartAddress" -> GetStartAddress_Test(s)
      [] t = "GetIdentifyDeviceWithData" -> GetIdentifyDeviceWithData_Test(s)
      [] t = "GetSupportedParameters" -> GetSupportedParameters_Test(s)
      [] t = "GetProxiedDevices" -> GetMixin_Test(s)
      [] t = "GetProxiedDeviceCount" -> GetProxiedDeviceCount_Test(s)
      [] t = "GetPersonality" -> GetPersonality_Test(s)
      [] t = "GetPersonalities" -> GetPersonalities_Test(s)
      [] t = "SetPersonality" -> SetPersonality_Test(s)
      [] t = "GetSensorDefinition" -> GetSensorDefinition_Test(s)
      [] t = "GetIdentifyDevice" -> GetRequiredMixin_Test(s)
      [] t = "SetIdentifyDevice" -> SetIdentifyDevice_Test(s)
      [] t = "GetPowerState" -> GetMixin_Test(s)
      [] t = "GetSensorValues" -> GetSensorValues_Test(s)
      [] t = "FindSelfTests" -> FindSelfTests_Test(s)
      [] t = "GetParamDescription" -> GetParamDescription_Test(s)
      [] t \in {"SetPowerState", "SetLampOnMode", "SetDisplayInvert"} ->
           SetMixin_Test(s)
      [] t \in {"GetLampOnMode", "GetDisplayInvert"} -> GetMixin_Test(s)
      [] t = "GetDeviceLabel" -> GetMixin_Test(s)
      [] t = "SetDeviceLabel" -> SetLabelMixin_Test(s)
      [] t = "GetLanguageCapabilities" -> GetLanguageCapabilities_Test(s)
      [] t = "GetLanguage" -> GetMixin_Test(s)
      [] t = "SetLanguage" -> SetLanguage_Test(s)
      [] t = "SetUnsupportedLanguage" -> SetUnsupportedLanguage_Test(s)
      [] t = "SetStartAddress" -> SetStartAddress_Test(s)
      [] t = "SetRealTimeClock" -> SetRealTimeClock_Test(s)
      [] t = "GetSlotInfo" -> GetSlotInfo_Test(s)
      [] t = "GetSlotDescriptions" -> GetSlotDescriptions_Test(s)
      [] t = "GetUndefinedSensorValues" -> GetUndefinedSensorValues_Test(s)
      [] t = "ResetSensorValue" -> ResetSensorValue_Test(s)
      [] t = "RecordSensorValues" -> RecordSensorValues_Test(s)

\* descriptors that do not override VerifyResult inherit the empty one
VerifyResult(t, s, r) ==
    CASE t = "GetDeviceInfo" -> GetDeviceInfo_VerifyResult(s, r)
      [] t = "FindSubDevices" -> FindSubDevices_VerifyResult(s, r)
      [] t = "GetStartAddress" -> GetStartAddress_VerifyResult(s, r)
      [] t = "GetSupportedParameters" ->
           GetSupportedParameters_VerifyResult(s, r)
      [] t = "GetProxiedDevices" -> GetMixin_VerifyResult(s, r)
      [] t = "GetProxiedDeviceCount" ->
           GetProxiedDeviceCount_VerifyResult(s, r)
      [] t = "GetPersonality" -> GetPersonality_VerifyResult(s, r)
      [] t = "GetPersonalities" -> GetPersonalities_VerifyResult(s, r)
      [] t = "GetSensorDefinition" -> GetSensorDefinition_VerifyResult(s, r)
      [] t = "GetIdentifyDevice" -> GetRequiredMixin_VerifyResult(s, r)
      [] t = "GetPowerState" -> GetPowerState_VerifyResult(s, r)
      [] t = "GetSensorValues" -> GetSensorValues_VerifyResult(s, r)
      [] t = "FindSelfTests" -> FindSelfTests_VerifyResult(s, r)
      [] t = "GetParamDescription" -> GetParamDescription_VerifyResult(s, r)
      [] t \in {"GetDeviceLabel", "GetLanguage", "GetLampOnMode",
                "GetDisplayInvert"} -> GetMixin_VerifyResult(s, r)
      [] t = "GetLanguageCapabilities" ->
           GetLanguageCapabilities_VerifyResult(s, r)
      [] t = "GetSlotInfo" -> GetSlotInfo_VerifyResult(s, r)
      [] t = "GetSlotDescriptions" -> GetSlotDescriptions_VerifyResult(s, r)
      [] OTHER -> s

RunAction(a, s) ==
    CASE a = "FindSubDevices._CheckForSubDevice" ->
           FindSubDevices_CheckForSubDevice(s)
      [] a = "ClearCommsStatus.VerifySet" -> ClearCommsStatus_VerifySet(s)
      [] a = "GetPersonalities._GetPersonality" ->
           GetPersonalities_GetPersonality(s)
      [] a = "SetPersonality.VerifySet" -> SetPersonality_VerifySet(s)
      [] a = "SetPersonality.VerifyDeviceInfo" ->
           SetPersonality_VerifyDeviceInfo(s)
      [] a = "GetSensorDefinition._CheckForSensor" ->
           GetSensorDefinition_CheckForSensor(s)
      [] a = "GetSensorDefinition._AddToHoles" ->
           GetSensorDefinition_AddToHoles(s)
      [] a = "SetIdentifyDevice.VerifyIdentifyMode" ->
           SetIdentifyDevice_VerifyIdentifyMode(s)
      [] a = "SetIdentifyDevice.ResetMode" -> SetIdentifyDevice_ResetMode(s)
      [] a = "SetMixin.VerifySet" -> SetMixin_VerifySet(s)
      [] a = "GetSensorValues._GetNextSensor" ->
           GetSensorValues_GetNextSensor(s)
      [] a = "FindSelfTests._CheckForSelfTest" ->
           FindSelfTests_CheckForSelfTest(s)
      [] a = "GetParamDescription._GetParam" ->
           GetParamDescription_GetParam(s)
      [] a = "SetLabelMixin.VerifySet" -> SetLabelMixin_VerifySet(s)
      [] a = "SetLanguage.VerifySet" -> SetLanguage_VerifySet(s)
      [] a = "SetStartAddress.VerifySet" -> SetStartAddress_VerifySet(s)
      [] a = "SetStartAddress.VerifyDeviceInfo" ->
           SetStartAddress_VerifyDeviceInfo(s)
      [] a = "GetSlotDescriptions._GetNextSlot" ->
           GetSlotDescriptions_GetNextSlot(s)
      [] a = "GetUndefinedSensorValues._GetSensorValue" ->
           GetUndefinedSensorValues_GetSensorValue(s)
      [] a = "ResetSensorValue._ResetNextSensor" ->
           ResetSensorValue_ResetNextSensor(s)
      [] a = "RecordSensorValues._RecordNextSensor" ->
           RecordSensorValues_RecordNextSensor(s)

(***************************************************************************)
(* Action-Chain Controller (specification 4.4, 4.5, 7)                     *)
(***************************************************************************)
\* the record of the last response handled: the response, the outcome
\* list it was matched against, and what the controller made of it; acked
\* lists, for the running chain, which of its requests were answered ACK
NoLast ==
    [kind |-> "", reason |-> "", matched |-> 0, fieldsOk |-> FALSE,
     action |-> "", nactions |-> 0, sentBefore |-> 0, vr |-> "",
     acked |-> <<>>, why |-> NoMessage, exp |-> <<>>,
     resp |-> [kind |-> "", cc |-> "", pid |-> "", reason |-> "",
               f |-> NoFields]]

\* a continuation action of the matched outcome is invoked
InvokeAction(s, a) ==
    RunAction(a, [s EXCEPT !.phase = "Action", !.last.nactions = @ + 1])

\* a verdict of FAILED or BROKEN, or an error raised by VerifyResult, ends
\* the chain; otherwise the matched outcome's continuation action runs, or
\* the chain is terminal
Continue(s0, p) ==
    LET s == [s0 EXCEPT !.last.vr = s0.v]
    IN IF s.raised \/ s.v \in {"FAILED", "BROKEN"} THEN Stop(s)
       ELSE IF p.action # "" THEN InvokeAction(s, p.action)
       ELSE Stop(s)

\* the response-verification step of a matched outcome
Verify(s, p, r) ==
    LET s1 == [s EXCEPT !.v = "PASSED"]
        s2 == IF p.warning THEN AddWarning(s1) ELSE s1
        s3 == IF p.advisory THEN AddAdvisory(s2) ELSE s2
    IN VerifyResult(s.cur, s3, r)

HandleResponse(s, r) ==
    LET i == MatchIndex(s.expected, r)
        s0 == [s EXCEPT !.outstanding = @ - 1,
                        !.phase = "VerifyResult",
                        !.last = [kind |-> r.kind, reason |-> r.reason,
                                  matched |-> i,
                                  fieldsOk |-> IF i = 0 THEN FALSE
                                               ELSE FieldsOk(s.expected[i], r),
                                  action |-> IF i = 0 THEN ""
                                             ELSE s.expected[i].action,
                                  nactions |-> 0,
                                  sentBefore |-> Len(s.sent), vr |-> "",
                                  acked |-> IF r.kind = "ACK"
                                            THEN Append(s.last.acked,
                                                        Len(s.sent))
                                            ELSE s.last.acked,
                                  why |-> NoMessage,
                                  exp |-> s.expected, resp |-> r]]
        unexpected == Message("unexpected response", 0, 0)
    IN IF i = 0 THEN Stop(SetFailedBecause(s0, unexpected))
       ELSE IF ~FieldsOk(s.expected[i], r)
       THEN Stop(SetFailedBecause(s0, unexpected))
       ELSE Continue(Verify(s0, s.expected[i], r), s.expected[i])

\* a timeout answered by sending the unanswered request once more
HandleTimeout_Resends(s) ==
    IF Len(s.sent) < 2 \/ s.sent[Len(s.sent)] # s.sent[Len(s.sent) - 1]
    THEN Send([s EXCEPT !.outstanding = @ - 1,
                        !.last = [NoLast EXCEPT !.kind = "TIMEOUT",
                                                !.sentBefore = Len(s.sent),
                                                !.acked = s.last.acked]],
              s.sent[Len(s.sent)])
    ELSE Stop(SetFailedBecause(
             [s EXCEPT !.outstanding = @ - 1,
                       !.last = [NoLast EXCEPT !.kind = "TIMEOUT",
                                               !.sentBefore = Len(s.sent),
                                               !.acked = s.last.acked]],
             Message("no response", 0, 0)))

\* no response within the transport's timeout window
HandleTimeout(s) ==
    Stop(SetFailedBecause(
        [s EXCEPT !.outstanding = @ - 1,
                  !.last = [NoLast EXCEPT !.kind = "TIMEOUT",
                                          !.sentBefore = Len(s.sent),
                                          !.acked = s.last.acked]],
        Message("no response", 0, 0)))

(***************************************************************************)
(* The responder: every reply it may give to a request                     *)
(***************************************************************************)
NackReasons ==
    {"NR_UNKNOWN_PID", "NR_FORMAT_ERROR", "NR_DATA_OUT_OF_RANGE",
     "NR_SUB_DEVICE_OUT_OF_RANGE", "NR_UNSUPPORTED_COMMAND_CLASS"}

Consumed(cat) == UNION {REQUIRES(t) : t \in cat}

\* the DEVICE_INFO fields whose value some test of the run reads
Varied(cat) ==
    IF Consumed(cat) \cap PROVIDES("GetDeviceInfo") = {}
    THEN PROVIDES("GetDeviceInfo")
    ELSE Consumed(cat)

DevRange(n) ==
    CASE n = "sub_device_count" -> 0..MaxSubDeviceCount
      [] n = "personality_count" -> 0..MaxPersonalityCount
      [] n = "current_personality" -> 0..MaxPersonalityCount
      [] n = "dmx_footprint" -> {0, 1}
      [] n = "dmx_start_address" ->
           IF "SetStartAddress" \in catalog THEN {1, 2}
           ELSE {1, ZERO_FOOTPRINT_ADDRESS}
      [] n = "sensor_count" -> 0..MaxSensorCount

DevDefault(n) ==
    CASE n \in {"sub_device_count", "sensor_count"} -> 0
      [] OTHER -> 1

DevValues(n) ==
    IF n \in Varied(catalog) \/ (n = "dmx_start_address"
                                  /\ "SetStartAddress" \in catalog)
    THEN DevRange(n)
    ELSE {DevDefault(n)}

DeviceInfoFields ==
    {[protocol_major |-> pm, protocol_minor |-> 0, device_model |-> 0,
      product_category |-> 0, software_version |-> 0, dmx_footprint |-> fp,
      current_personality |-> cp, personality_count |-> pn,
      dmx_start_address |-> sa, sub_device_count |-> sd, sensor_count |-> sc] :
        pm \in {1, 2}, fp \in DevValues("dmx_footprint"),
        cp \in DevValues("current_personality"),
        pn \in DevValues("personality_count"),
        sa \in DevValues("dmx_start_address"),
        sd \in DevValues("sub_device_count"),
        sc \in DevValues("sensor_count")}

SubDeviceInfoFields ==
    {[protocol_major |-> 1, protocol_minor |-> 0, device_model |-> 0,
      product_category |-> 0, software_version |-> 0, dmx_footprint |-> 1,
      current_personality |-> 1, personality_count |-> 1,
      dmx_start_address |-> 1, sub_device_count |-> 0, sensor_count |-> 0]}

\* the sensor types the responder reports: one RDMConstants names and one it
\* does not, when no test of the run reads the definitions back
SensorTypes ==
    IF "sensor_definitions" \in Consumed(catalog) THEN {0} ELSE {0, 33}

\* the supports_recording flags the responder reports: sensors that record
\* and, in a run that asks them to, sensors that do not
RecordingFlags ==
    IF "RecordSensorValues" \in catalog THEN {0, 1} ELSE {1}

\* longest params list a SUPPORTED_PARAMETERS reply carries
MaxParams == 2

\* the param_id values a SUPPORTED_PARAMETERS reply draws from
ParamIds == {1, 96, 224, 225, 32767, 32768, 65503, 65504}

ParamLists ==
    UNION {[1..n -> ParamIds] : n \in 0..MaxParams}

\* the language lists a LANGUAGE_CAPABILITIES reply may carry
LanguageLists ==
    {q \in UNION {[1..n -> Languages] : n \in 0..MaxLanguages} :
        \A i \in 1..(Len(q) - 1) : q[i] <= q[i + 1]}

\* longest list of slots a SLOT_INFO reply carries
MaxSlots == 2

\* the slots a SLOT_INFO reply draws from: primary and secondary slots at
\* the first two offsets, labelled SD_INTENSITY or referring to slot 1
Slots ==
    {[slot_offset |-> a, slot_type |-> b, slot_label_id |-> 1] :
        a \in {0, 1}, b \in {ST_PRIMARY, 1}}

SlotLists == UNION {[1..n -> Slots] : n \in 0..MaxSlots}

\* the decoded fields an ACK to req may carry
AckFields(req) ==
    CASE req.cc = "SET" -> {NoFields}
      [] req.pid = "DEVICE_INFO" /\ req.sub = ROOT_DEVICE -> DeviceInfoFields
      [] req.pid = "DEVICE_INFO" /\ req.sub # ROOT_DEVICE -> SubDeviceInfoFields
      [] req.pid = "COMMS_STATUS" ->
           {[short_message |-> a, length_mismatch |-> 0, checksum_fail |-> b] :
               a \in {0, 1}, b \in {0, 1}}
      [] req.pid = "DMX_PERSONALITY_DESCRIPTION" ->
           {[personality |-> a, slots_required |-> b, name |-> 0] :
               a \in 0..MaxPersonalityCount, b \in {0, 1}}
      [] req.pid = "DMX_START_ADDRESS" ->
           {[dmx_address |-> a] :
               a \in {1, 2, MAX_DMX_ADDRESS, ZERO_FOOTPRINT_ADDRESS}}
      [] req.pid = "IDENTIFY_DEVICE" ->
           {[identify_state |-> a] : a \in {0, 1}}
      [] req.pid = "POWER_STATE" ->
           {[power_state |-> a] : a \in {0, 1, 3, 255}}
      [] req.pid = "DMX_PERSONALITY" ->
           {[current_personality |-> a, personality_count |-> b] :
               a \in 1..MaxPersonalityCount, b \in 1..MaxPersonalityCount}
      [] req.pid = "SUPPORTED_PARAMETERS" ->
           {[params |-> q] : q \in ParamLists}
      [] req.pid = "PROXIED_DEVICES" -> {[uids |-> <<>>], [uids |-> <<7>>]}
      [] req.pid = "PROXIED_DEVICE_COUNT" ->
           {[device_count |-> a, list_changed |-> b] :
               a \in {0, 1}, b \in {0, 1}}
      [] req.pid = "SENSOR_DEFINITION" ->
           {[sensor_number |-> a, type |-> b, unit |-> 0, prefix |-> 0,
             range_min |-> 0, range_max |-> 1, normal_min |-> 0,
             normal_max |-> 1, supports_recording |-> c] :
               a \in {req.arg, (req.arg + 1) % (MAX_SENSOR_INDEX + 1)},
               b \in SensorTypes, c \in RecordingFlags}
      [] req.pid = "SENSOR_VALUE" ->
           {[sensor_number |-> a, present_value |-> b, lowest |-> 0,
             highest |-> 0, recorded |-> 0] :
               a \in {req.arg, (req.arg + 1) % (MAX_SENSOR_INDEX + 1)},
               b \in {0, 2}}
      [] req.pid = "PARAMETER_DESCRIPTION" ->
           {[pid |-> a, type |-> 0, command_class |-> b] :
               a \in {req.arg, req.arg + 1}, b \in {1, 4}}
      [] req.pid = "DEVICE_LABEL" -> {[label |-> a] : a \in {0, TEST_LABEL}}
      [] req.pid = "LANGUAGE" -> {[language |-> a] : a \in Languages}
      [] req.pid = "LANGUAGE_CAPABILITIES" ->
           {[languages |-> q] : q \in LanguageLists}
      [] req.pid = "SELF_TEST_DESCRIPTION" ->
           {[test_number |-> a, description |-> 0] :
               a \in {req.arg, req.arg + 1}}
      [] req.pid = "SLOT_INFO" -> {[slots |-> q] : q \in SlotLists}
      [] req.pid = "SLOT_DESCRIPTION" ->
           {[slot_number |-> a, name |-> 0] : a \in {req.arg, req.arg + 1}}

Responses(req) ==
    {[kind |-> "ACK", cc |-> req.cc, pid |-> req.pid, reason |-> "", f |-> f] :
        f \in AckFields(req)}
    \cup
    {[kind |-> "NACK", cc |-> req.cc, pid |-> req.pid, reason |-> n,
      f |-> NoFields] : n \in NackReasons}

(***************************************************************************)
(* RDMConstants.py: the name -> code tables and the reverse tables that    *)
(* are built from them when the module is loaded                           *)
(***************************************************************************)
\* an entry of a dict display as the file writes it: 'name': code
KeyValue(name, code) == [name |-> name, sep |-> ":", code |-> code]

\* an entry the file writes 'name' = code, which no dict display may hold
Assigned(name, code) == [name |-> name, sep |-> "=", code |-> code]

SENSOR_TYPES ==
    <<KeyValue("SENSOR_TEMPERATURE", 0),
      KeyValue("SENSOR_VOLTAGE", 1),
      KeyValue("SENSOR_CURRENT", 2),
      KeyValue("SENSOR_FREQUENCY", 3),
      KeyValue("SENSOR_RESISTANCE", 4),
      KeyValue("SENSOR_POWER", 5),
      KeyValue("SENSOR_MASS", 6),
      KeyValue("SENSOR_LENGTH", 7),
      KeyValue("SENSOR_AREA", 8),
      KeyValue("SENSOR_VOLUME", 9),
      KeyValue("SENSOR_DENSITY", 10),
      KeyValue("SENSOR_VELOCITY", 11),
      KeyValue("SENSOR_ACCELERATION", 12),
      KeyValue("SENSOR_FORCE", 13),
      KeyValue("SENSOR_ENERGY", 14),
      KeyValue("SENSOR_PRESSURE", 15),
      KeyValue("SENSOR_TIME", 16),
      KeyValue("SENSOR_ANGLE", 17),
      KeyValue("SENSOR_POSITION_X", 18),
      KeyValue("SENSOR_POSITION_Y", 19),
      KeyValue("SENSOR_POSITION_Z", 20),
      KeyValue("SENSOR_ANGULAR_VELOCITY", 21),
      KeyValue("SENSOR_LUMINOUS_INTENSITY", 22),
      KeyValue("SENSOR_LUMINOUS_FLUX", 23),
      KeyValue("SENSOR_ILLUMINANCE", 24),
      KeyValue("SENSOR_CHROMINANCE_RED", 25),
      KeyValue("SENSOR_CHROMINANCE_GREEN", 26),
      KeyValue("SENSOR_CHROMINANCE_BLUE", 27),
      KeyValue("SENSOR_CONTACTS", 28),
      KeyValue("SENSOR_MEMORY", 29),
      KeyValue("SENSOR_ITEMS", 30),
      KeyValue("SENSOR_HUMIDITY", 31),
      KeyValue("SENSOR_COUNTER_16BIT", 32),
      KeyValue("SENSOR_OTHER", 127)>>

UNITS ==
    <<KeyValue("UNITS_NONE", 0),
      KeyValue("UNITS_CENTIGRADE", 1),
      KeyValue("UNITS_VOLTS_DC", 2),
      KeyValue("UNITS_VOLTS_AC_PEAK", 3),
      KeyValue("UNITS_VOLTS_AC_RMS", 4),
      KeyValue("UNITS_AMPERE_DC", 5),
      KeyValue("UNITS_AMPERE_AC_PEAK", 6),
      KeyValue("UNITS_AMPERE_AC_RMS", 7),
      KeyValue("UNITS_HERTZ", 8),
      KeyValue("UNITS_OHM", 9),
      KeyValue("UNITS_WATT", 10),
      KeyValue("UNITS_KILOGRAM", 11),
      KeyValue("UNITS_METERS", 12),
      KeyValue("UNITS_METERS_SQUARED", 13),
      KeyValue("UNITS_METERS_CUBED", 14),
      KeyValue("UNITS_KILOGRAMMES_PER_METER_CUBED", 15),
      KeyValue("UNITS_METERS_PER_SECOND", 16),
      KeyValue("UNITS_METERS_PER_SECOND_SQUARED", 17),
      KeyValue("UNITS_NEWTON", 18),
      KeyValue("UNITS_JOULE", 19),
      KeyValue("UNITS_PASCAL", 20),
      KeyValue("UNITS_SECOND", 21),
      KeyValue("UNITS_DEGREE", 22),
      KeyValue("UNITS_STERADIAN", 23),
      KeyValue("UNITS_CANDELA", 24),
      KeyValue("UNITS_LUMEN", 25),
      KeyValue("UNITS_LUX", 26),
      KeyValue("UNITS_IRE", 27),
      KeyValue("UNITS_BYTE", 28)>>

PREFIXES ==
    <<KeyValue("PREFIX_NONE", 0),
      KeyValue("PREFIX_DECI", 1),
      KeyValue("PREFIX_CENTI", 2),
      KeyValue("PREFIX_MILLI", 3),
      KeyValue("PREFIX_MICRO", 4),
      KeyValue("PREFIX_NANO", 5),
      KeyValue("PREFIX_PICO", 6),
      KeyValue("PREFIX_FEMPTO", 7),
      KeyValue("PREFIX_ATTO", 8),
      KeyValue("PREFIX_ZEPTO", 9),
      KeyValue("PREFIX_YOCTO", 10),
      KeyValue("PREFIX_DECA", 17),
      KeyValue("PREFIX_HECTO", 18),
      KeyValue("PREFIX_KILO", 19),
      KeyValue("PREFIX_MEGA", 20),
      KeyValue("PREFIX_GIGA", 21),
      KeyValue("PREFIX_TERRA", 22),
      KeyValue("PREFIX_PETA", 23),
      KeyValue("PREFIX_EXA", 24),
      KeyValue("PREFIX_ZETTA", 25),
      KeyValue("PREFIX_YOTTA", 26)>>

PRODUCT_CATEGORIES ==
    <<KeyValue("PRODUCT_CATEGORY_NOT_DECLARED", 0),
      KeyValue("PRODUCT_CATEGORY_FIXTURE", 256),
      KeyValue("PRODUCT_CATEGORY_FIXTURE_FIXED", 257),
      KeyValue("PRODUCT_CATEGORY_FIXTURE_MOVING_YOKE", 258),
      KeyValue("PRODUCT_CATEGORY_FIXTURE_MOVING_MIRROR", 259),
      KeyValue("PRODUCT_CATEGORY_FIXTURE_OTHER", 511),
      KeyValue("PRODUCT_CATEGORY_FIXTURE_ACCESSORY", 512),
      KeyValue("PRODUCT_CATEGORY_FIXTURE_ACCESSORY_COLOR", 513),
      KeyValue("PRODUCT_CATEGORY_FIXTURE_ACCESSORY_YOKE", 514),
      KeyValue("PRODUCT_CATEGORY_FIXTURE_ACCESSORY_MIRROR", 515),
      KeyValue("PRODUCT_CATEGORY_FIXTURE_ACCESSORY_EFFECT", 516),
      KeyValue("PRODUCT_CATEGORY_FIXTURE_ACCESSORY_BEAM", 517),
      KeyValue("PRODUCT_CATEGORY_FIXTURE_ACCESSORY_OTHER", 767),
      KeyValue("PRODUCT_CATEGORY_PROJECTOR", 768),
      KeyValue("PRODUCT_CATEGORY_PROJECTOR_FIXED", 769),
      KeyValue("PRODUCT_CATEGORY_PROJECTOR_MOVING_YOKE", 770),
      KeyValue("PRODUCT_CATEGORY_PROJECTOR_MOVING_MIRROR", 771),
      KeyValue("PRODUCT_CATEGORY_PROJECTOR_OTHER", 1023),
      KeyValue("PRODUCT_CATEGORY_ATMOSPHERIC", 1024),
      KeyValue("PRODUCT_CATEGORY_ATMOSPHERIC_EFFECT", 1025),
      KeyValue("PRODUCT_CATEGORY_ATMOSPHERIC_PYRO", 1026),
      KeyValue("PRODUCT_CATEGORY_ATMOSPHERIC_OTHER", 1279),
      KeyValue("PRODUCT_CATEGORY_DIMMER", 1280),
      KeyValue("PRODUCT_CATEGORY_DIMMER_AC_INCANDESCENT", 1281),
      KeyValue("PRODUCT_CATEGORY_DIMMER_AC_FLUORESCENT", 1282),
      KeyValue("PRODUCT_CATEGORY_DIMMER_AC_COLDCATHODE", 1283),
      KeyValue("PRODUCT_CATEGORY_DIMMER_AC_NONDIM", 1284),
      KeyValue("PRODUCT_CATEGORY_DIMMER_AC_ELV", 1285),
      KeyValue("PRODUCT_CATEGORY_DIMMER_AC_OTHER", 1286),
      KeyValue("PRODUCT_CATEGORY_DIMMER_DC_LEVEL", 1287),
      KeyValue("PRODUCT_CATEGORY_DIMMER_DC_PWM", 1288),
      KeyValue("PRODUCT_CATEGORY_DIMMER_CS_LED", 1289),
      KeyValue("PRODUCT_CATEGORY_DIMMER_OTHER", 1535),
      KeyValue("PRODUCT_CATEGORY_POWER", 1536),
      KeyValue("PRODUCT_CATEGORY_POWER_CONTROL", 1537),
      KeyValue("PRODUCT_CATEGORY_POWER_SOURCE", 1538),
      KeyValue("PRODUCT_CATEGORY_POWER_OTHER", 1791),
      KeyValue("PRODUCT_CATEGORY_SCENIC", 1792),
      KeyValue("PRODUCT_CATEGORY_SCENIC_DRIVE", 1793),
      KeyValue("PRODUCT_CATEGORY_SCENIC_OTHER", 2047),
      KeyValue("PRODUCT_CATEGORY_DATA", 2048),
      KeyValue("PRODUCT_CATEGORY_DATA_DISTRIBUTION", 2049),
      KeyValue("PRODUCT_CATEGORY_DATA_CONVERSION", 2050),
      KeyValue("PRODUCT_CATEGORY_DATA_OTHER", 2303),
      KeyValue("PRODUCT_CATEGORY_AV", 2304),
      KeyValue("PRODUCT_CATEGORY_AV_AUDIO", 2305),
      KeyValue("PRODUCT_CATEGORY_AV_VIDEO", 2306),
      KeyValue("PRODUCT_CATEGORY_AV_OTHER", 2559),
      KeyValue("PRODUCT_CATEGORY_MONITOR", 2560),
      KeyValue("PRODUCT_CATEGORY_MONITOR_ACLINEPOWER", 2561),
      KeyValue("PRODUCT_CATEGORY_MONITOR_DCPOWER", 2562),
      KeyValue("PRODUCT_CATEGORY_MONITOR_ENVIRONMENTAL", 2563),
      KeyValue("PRODUCT_CATEGORY_MONITOR_OTHER", 2815),
      KeyValue("PRODUCT_CATEGORY_CONTROL", 28672),
      KeyValue("PRODUCT_CATEGORY_CONTROL_CONTROLLER", 28673),
      KeyValue("PRODUCT_CATEGORY_CONTROL_BACKUPDEVICE", 28674),
      KeyValue("PRODUCT_CATEGORY_CONTROL_OTHER", 28927),
      KeyValue("PRODUCT_CATEGORY_TEST", 28928),
      KeyValue("PRODUCT_CATEGORY_TEST_EQUIPMENT", 28929),
      KeyValue("PRODUCT_CATEGORY_TEST_EQUIPMENT_OTHER", 29183),
      KeyValue("PRODUCT_CATEGORY_OTHER", 32767)>>

PRODUCT_DETAIL_IDS ==
    <<KeyValue("PRODUCT_DETAIL_NOT_DECLARED", 0),
      KeyValue("PRODUCT_DETAIL_ARC", 1),
      KeyValue("PRODUCT_DETAIL_METAL_HALIDE", 2),
      KeyValue("PRODUCT_DETAIL_INCANDESCENT", 3),
      KeyValue("PRODUCT_DETAIL_LED", 4),
      KeyValue("PRODUCT_DETAIL_FLUROESCENT", 5),
      KeyValue("PRODUCT_DETAIL_COLDCATHODE", 6),
      KeyValue("PRODUCT_DETAIL_ELECTROLUMINESCENT", 7),
      KeyValue("PRODUCT_DETAIL_LASER", 8),
      KeyValue("PRODUCT_DETAIL_FLASHTUBE", 9),
      KeyValue("PRODUCT_DETAIL_COLORSCROLLER", 256),
      KeyValue("PRODUCT_DETAIL_COLORWHEEL", 257),
      KeyValue("PRODUCT_DETAIL_COLORCHANGE", 258),
      KeyValue("PRODUCT_DETAIL_IRIS_DOUSER", 259),
      KeyValue("PRODUCT_DETAIL_DIMMING_SHUTTER", 260),
      KeyValue("PRODUCT_DETAIL_PROFILE_SHUTTER", 261),
      KeyValue("PRODUCT_DETAIL_BARNDOOR_SHUTTER", 262),
      KeyValue("PRODUCT_DETAIL_EFFECTS_DISC", 263),
      KeyValue("PRODUCT_DETAIL_GOBO_ROTATOR", 264),
      KeyValue("PRODUCT_DETAIL_VIDEO", 512),
      KeyValue("PRODUCT_DETAIL_SLIDE", 513),
      KeyValue("PRODUCT_DETAIL_FILM", 514),
      KeyValue("PRODUCT_DETAIL_OILWHEEL", 515),
      KeyValue("PRODUCT_DETAIL_LCDGATE", 516),
      KeyValue("PRODUCT_DETAIL_FOGGER_GLYCOL", 768),
      KeyValue("PRODUCT_DETAIL_FOGGER_MINERALOIL", 769),
      KeyValue("PRODUCT_DETAIL_FOGGER_WATER", 770),
      KeyValue("PRODUCT_DETAIL_CO2", 771),
      KeyValue("PRODUCT_DETAIL_LN2", 772),
      KeyValue("PRODUCT_DETAIL_BUBBLE", 773),
      KeyValue("PRODUCT_DETAIL_FLAME_PROPANE", 774),
      KeyValue("PRODUCT_DETAIL_FLAME_OTHER", 775),
      KeyValue("PRODUCT_DETAIL_OLEFACTORY_STIMULATOR", 776),
      KeyValue("PRODUCT_DETAIL_SNOW", 777),
      KeyValue("PRODUCT_DETAIL_WATER_JET", 778),
      KeyValue("PRODUCT_DETAIL_WIND", 779),
      KeyValue("PRODUCT_DETAIL_CONFETTI", 780),
      KeyValue("PRODUCT_DETAIL_HAZARD", 781),
      KeyValue("PRODUCT_DETAIL_PHASE_CONTROL", 1024),
      KeyValue("PRODUCT_DETAIL_REVERSE_PHASE_CONTROL", 1025),
      KeyValue("PRODUCT_DETAIL_SINE", 1026),
      KeyValue("PRODUCT_DETAIL_PWM", 1027),
      KeyValue("PRODUCT_DETAIL_DC", 1028),
      KeyValue("PRODUCT_DETAIL_HFBALLAST", 1029),
      KeyValue("PRODUCT_DETAIL_HFHV_NEONBALLAST", 1030),
      KeyValue("PRODUCT_DETAIL_HFHV_EL", 1031),
      KeyValue("PRODUCT_DETAIL_MHR_BALLAST", 1032),
      KeyValue("PRODUCT_DETAIL_BITANGLE_MODULATION", 1033),
      KeyValue("PRODUCT_DETAIL_FREQUENCY_MODULATION", 1034),
      KeyValue("PRODUCT_DETAIL_HIGHFREQUENCY_12V", 1035),
      KeyValue("PRODUCT_DETAIL_RELAY_MECHANICAL", 1036),
      KeyValue("PRODUCT_DETAIL_RELAY_ELECTRONIC", 1037),
      KeyValue("PRODUCT_DETAIL_SWITCH_ELECTRONIC", 1038),
      KeyValue("PRODUCT_DETAIL_CONTACTOR", 1039),
      KeyValue("PRODUCT_DETAIL_MIRRORBALL_ROTATOR", 1280),
      KeyValue("PRODUCT_DETAIL_OTHER_ROTATOR", 1281),
      KeyValue("PRODUCT_DETAIL_KABUKI_DROP", 1282),
      KeyValue("PRODUCT_DETAIL_CURTAIN", 1283),
      KeyValue("PRODUCT_DETAIL_LINESET", 1284),
      KeyValue("PRODUCT_DETAIL_MOTOR_CONTROL", 1285),
      KeyValue("PRODUCT_DETAIL_DAMPER_CONTROL", 1286),
      KeyValue("PRODUCT_DETAIL_SPLITTER", 1536),
      KeyValue("PRODUCT_DETAIL_ETHERNET_NODE", 1537),
      KeyValue("PRODUCT_DETAIL_MERGE", 1538),
      KeyValue("PRODUCT_DETAIL_DATAPATCH", 1539),
      KeyValue("PRODUCT_DETAIL_WIRELESS_LINK", 1540),
      KeyValue("PRODUCT_DETAIL_PROTOCOL_CONVERTOR", 1793),
      KeyValue("PRODUCT_DETAIL_ANALOG_DEMULTIPLEX", 1794),
      KeyValue("PRODUCT_DETAIL_ANALOG_MULTIPLEX", 1795),
      KeyValue("PRODUCT_DETAIL_SWITCH_PANEL", 1796),
      KeyValue("PRODUCT_DETAIL_ROUTER", 2048),
      KeyValue("PRODUCT_DETAIL_FADER", 2049),
      KeyValue("PRODUCT_DETAIL_MIXER", 2050),
      KeyValue("PRODUCT_DETAIL_CHANGEOVER_MANUAL", 2304),
      KeyValue("PRODUCT_DETAIL_CHANGEOVER_AUTO", 2305),
      KeyValue("PRODUCT_DETAIL_TEST", 2306),
      KeyValue("PRODUCT_DETAIL_GFI_RCD", 2560),
      KeyValue("PRODUCT_DETAIL_BATTERY", 2561),
      KeyValue("PRODUCT_DETAIL_CONTROLLABLE_BREAKER", 2562),
      KeyValue("PRODUCT_DETAIL_OTHER", 32767)>>

SLOT_TYPES ==
    <<KeyValue("ST_PRIMARY", 0),
      KeyValue("ST_SEC_FINE", 1),
      KeyValue("ST_SEC_TIMING", 2),
      KeyValue("ST_SEC_SPEED", 3),
      KeyValue("ST_SEC_CONTROL", 4),
      KeyValue("ST_SEC_INDEX", 5),
      KeyValue("ST_SEC_ROTATION", 6),
      KeyValue("ST_SEC_INDEX_ROTATE", 7),
      KeyValue("ST_SEC_UNDEFINED", 255)>>

SLOT_DEFINITIONS ==
    <<KeyValue("SD_INTENSITY", 1),
      KeyValue("SD_INTENSITY_MASTER", 2),
      KeyValue("SD_PAN", 257),
      KeyValue("SD_TILT", 258),
      KeyValue("SD_COLOR_WHEEL", 513),
      KeyValue("SD_COLOR_SUB_CYAN", 514),
      KeyValue("SD_COLOR_SUB_YELLOW", 515),
      KeyValue("SD_COLOR_SUB_MAGENTA", 516),
      KeyValue("SD_COLOR_ADD_RED", 517),
      KeyValue("SD_COLOR_ADD_GREEN", 518),
      KeyValue("SD_COLOR_ADD_BLUE", 519),
      KeyValue("SD_COLOR_CORRECTION", 520),
      KeyValue("SD_COLOR_SCROLL", 521),
      KeyValue("SD_COLOR_SEMAPHORE", 528),
      KeyValue("SD_STATIC_GOBO_WHEEL", 769),
      KeyValue("SD_ROTO_GOBO_WHEEL", 770),
      KeyValue("SD_PRISM_WHEEL", 771),
      KeyValue("SD_EFFECTS_WHEEL", 772),
      KeyValue("SD_BEAM_SIZE_IRIS", 1025),
      KeyValue("SD_EDGE", 1026),
      KeyValue("SD_FROST", 1027),
      KeyValue("SD_STROBE", 1028),
      KeyValue("SD_ZOOM", 1029),
      KeyValue("SD_FRAMING_SHUTTER", 1030),
      KeyValue("SD_SHUTTER_ROTATE", 1031),
      KeyValue("SD_DOUSER", 1032),
      KeyValue("SD_BARN_DOOR", 1033),
      KeyValue("SD_LAMP_CONTROL", 1281),
      KeyValue("SD_FIXTURE_CONTROL", 1282),
      KeyValue("SD_FIXTURE_SPEED", 1283),
      KeyValue("SD_MACRO", 1284),
      Assigned("SD_POWER_CONTROL", 1285),
      Assigned("SD_FAN_CONTROL", 1286),
      Assigned("SD_HEATER_CONTROL", 1287),
      KeyValue("SD_UNDEFINED", 65535)>>

PRESET_PROGRAMMED ==
    <<KeyValue("PRESET_NOT_PROGRAMMED", 0),
      KeyValue("PRESET_PROGRAMMED", 1),
      KeyValue("PRESET_PROGRAMMED_READ_ONLY", 2)>>

MERGE_MODE ==
    <<KeyValue("MERGEMODE_DEFAULT", 0),
      KeyValue("MERGEMODE_HTP", 1),
      KeyValue("MERGEMODE_LTP", 2),
      KeyValue("MERGEMODE_DMX_ONLY", 3),
      KeyValue("MERGEMODE_OTHER", 255)>>

\* the statements of the module in file order: each table is followed by
\* the statement that builds its reverse table
RDMConstants ==
    <<[table |-> "SENSOR_TYPES", entries |-> SENSOR_TYPES,
       reverse |-> "SENSOR_TYPE_TO_NAME"],
      [table |-> "UNITS", entries |-> UNITS,
       reverse |-> "UNIT_TO_NAME"],
      [table |-> "PREFIXES", entries |-> PREFIXES,
       reverse |-> "PREFIX_TO_NAME"],
      [table |-> "PRODUCT_CATEGORIES", entries |-> PRODUCT_CATEGORIES,
       reverse |-> "PRODUCT_CATEGORY_TO_NAME"],
      [table |-> "PRODUCT_DETAIL_IDS", entries |-> PRODUCT_DETAIL_IDS,
       reverse |-> "PRODUCT_DETAIL_IDS_TO_NAME"],
      [table |-> "SLOT_TYPES", entries |-> SLOT_TYPES,
       reverse |-> "SLOT_TYPE_TO_NAME"],
      [table |-> "SLOT_DEFINITIONS", entries |-> SLOT_DEFINITIONS,
       reverse |-> "SLOT_DEFINITION_TO_NAME"],
      [table |-> "PRESET_PROGRAMMED", entries |-> PRESET_PROGRAMMED,
       reverse |-> "PRESET_PROGRAMMER_TO_NAME"],
      [table |-> "MERGE_MODE", entries |-> MERGE_MODE,
       reverse |-> "MERGE_MODE_TO_NAME"]>>

\* most entries of a table other than those of RDMConstants, and the
\* highest code such a table gives a name
MaxEntries == 3

MaxCode == 1

TableNames == {"A", "B", "C"}

TableCodes == 0..MaxCode

\* the dict displays of at most MaxEntries well-formed entries
RECURSIVE Displays(_)
Displays(n) ==
    IF n = 0
    THEN {<<>>}
    ELSE LET shorter == Displays(n - 1)
         IN shorter \cup
            {Append(d, KeyValue(a, c)) :
                d \in {e \in shorter : Len(e) = n - 1},
                a \in TableNames, c \in TableCodes}

\* the module texts that are loaded: RDMConstants.py itself, and a module of
\* one table for every small dict display
Texts ==
    {RDMConstants} \cup
    {<<[table |-> "TABLE", entries |-> d, reverse |-> "TABLE_TO_NAME"]>> :
        d \in Displays(MaxEntries)}

EmptyDict == <<>>

\* d[k] = v
Put(d, k, v) == [x \in DOMAIN d \cup {k} |-> IF x = k THEN v ELSE d[x]]

\* the dict a display evaluates to: its entries are stored from left to
\* right, so a name written twice keeps its last code
RECURSIVE StoreEntries(_, _)
StoreEntries(d, entries) ==
    IF entries = <<>>
    THEN d
    ELSE StoreEntries(Put(d, Head(entries).name, Head(entries).code),
                      Tail(entries))

DictOf(entries) == StoreEntries(EmptyDict, entries)

\* the orders in which iteritems() may go through a dict: the order is a
\* matter of the hash table, any order of the keys is taken to be possible
IterItems(d) ==
    {q \in [1..Cardinality(DOMAIN d) -> DOMAIN d] :
        \A k \in DOMAIN d : \E i \in DOMAIN q : q[i] = k}

\* the loop of _ReverseDict over the keys that are left
RECURSIVE ReverseItems(_, _, _)
ReverseItems(input, keys, output) ==
    IF keys = <<>>
    THEN output
    ELSE ReverseItems(input, Tail(keys),
                      Put(output, input[Head(keys)], Head(keys)))

\* _ReverseDict(input), with iteritems() going through the keys in this
\* order
ReverseDict(input, keys) == ReverseItems(input, keys, EmptyDict)

\* the file compiles when each entry of each display is a key: value pair
Compiles(text) ==
    \A k \in DOMAIN text :
        \A i \in DOMAIN text[k].entries : text[k].entries[i].sep = ":"

\* no module is being loaded
NoRegistry ==
    [text |-> <<>>, phase |-> "ABSENT", line |-> 0, forward |-> EmptyDict,
     reverse |-> EmptyDict]

\* the statement that is run next, and the table it is about
NextStatement == registry.text[(registry.line \div 2) + 1]

(***************************************************************************)
(* State of the run                                                        *)
(***************************************************************************)
InitSelf ==
    [device_count |-> 0, sub_devices |-> <<>>, current_index |-> 0,
     personalities |-> <<>>, personality_count |-> 0,
     new_personality |-> [personality |-> 0, slots_required |-> 0,
                          name |-> 0],
     sensors |-> {}, sensor_holes |-> <<>>, identify_mode |-> 0,
     new_mode |-> 0, queue |-> <<>>, sensor_values |-> <<>>,
     self_tests |-> {}, params |-> <<>>, current_param |-> 0,
     new_language |-> 0, start_address |-> 0, slots |-> <<>>,
     missing_sensors |-> <<>>]

\* the context of test t as Test() finds it
Ctx(t) ==
    [cur |-> t, supported |-> supported, props |-> props,
     provided |-> provided, nwrites |-> nwrites, mlog |-> mlog,
     v |-> "PENDING", nwarn |-> 0, expected |-> <<>>,
     outstanding |-> outstanding, sent |-> <<>>, self |-> InitSelf,
     stopped |-> FALSE, raised |-> FALSE, phase |-> "Test", last |-> NoLast,
     listing |-> <<>>, now |-> 0]

\* the context of the running test when a response arrives
Here ==
    [cur |-> cur, supported |-> supported, props |-> props,
     provided |-> provided, nwrites |-> nwrites, mlog |-> mlog,
     v |-> verdict[cur], nwarn |-> nwarn, expected |-> expected,
     outstanding |-> outstanding, sent |-> sent, self |-> self,
     stopped |-> FALSE, raised |-> FALSE, phase |-> "VerifyResult",
     last |-> last, listing |-> <<>>, now |-> 0]

Terminal(s) == s.stopped \/ s.outstanding = 0

\* descriptors that define ResetState, which the controller calls once the
\* chain of a test that ran has ended
HasResetState(t) == t = "SetPowerState"

AfterChain(s) ==
    IF HasResetState(s.cur) /\ s.sent # <<>> /\ s.v # "BROKEN"
    THEN "RESET_PENDING"
    ELSE "TERMINAL"

Commit(s) ==
    /\ cur' = s.cur
    /\ props' = s.props
    /\ provided' = s.provided
    /\ nwrites' = s.nwrites
    /\ mlog' = s.mlog
    /\ verdict' = [verdict EXCEPT ![s.cur] = s.v]
    /\ nwarn' = s.nwarn
    /\ expected' = s.expected
    /\ outstanding' = s.outstanding
    /\ sent' = s.sent
    /\ self' = s.self
    /\ raised' = s.raised
    /\ last' = s.last
    /\ cstate' = IF Terminal(s) THEN AfterChain(s) ELSE "AWAITING"
    /\ pc' = IF Terminal(s) THEN pc + 1 ELSE pc
    /\ UNCHANGED <<catalog, supported, order, aborted, registry>>

\* dependency-closed selections of the catalog that a run may load
Suites ==
    {{"GetDeviceInfo", "FindSubDevices"},
     {"GetDeviceInfo", "GetStartAddress"},
     {"GetDeviceInfo", "GetPersonalityDescription"},
     {"GetDeviceInfoWithData", "GetIdentifyDeviceWithData"},
     {"ClearCommsStatus"},
     {"GetSupportedParameters"},
     {"GetProxiedDevices", "GetProxiedDeviceCount"},
     {"GetDeviceInfo", "GetPersonalities", "SetPersonality"},
     {"GetDeviceInfo", "GetSensorDefinition"},
     {"GetIdentifyDevice", "SetIdentifyDevice"},
     {"GetPowerState", "SetPowerState"},
     {"GetDeviceInfo", "GetSensorDefinition", "GetSensorValues"},
     {"FindSelfTests"},
     {"GetSupportedParameters", "GetParamDescription"},
     {"GetDeviceLabel", "SetDeviceLabel"},
     {"GetLanguageCapabilities", "GetLanguage", "SetLanguage"},
     {"GetLanguageCapabilities", "SetUnsupportedLanguage"},
     {"GetDeviceInfo", "GetStartAddress", "SetStartAddress"},
     {"SetRealTimeClock"},
     {"GetSlotInfo", "GetSlotDescriptions"},
     {"GetDeviceInfo", "GetSensorDefinition", "GetUndefinedSensorValues"},
     {"GetDeviceInfo", "GetSensorDefinition", "ResetSensorValue"},
     {"GetDeviceInfo", "GetSensorDefinition", "RecordSensorValues"}}

OptionalPids(cat) == {PID(t) : t \in {u \in cat : Optional(u)}}

Init ==
    /\ catalog \in Suites
    /\ supported \in SUBSET OptionalPids(catalog)
    /\ order = <<>>
    /\ pc = 0
    /\ cur = "None"
    /\ cstate = "IDLE"
    /\ expected = <<>>
    /\ outstanding = 0
    /\ sent = <<>>
    /\ props = [n \in FactNames |-> FactDefault(n)]
    /\ provided = {}
    /\ nwrites = [n \in FactNames |-> 0]
    /\ mlog = {}
    /\ verdict = [t \in Tests |-> "PENDING"]
    /\ nwarn = 0
    /\ self = InitSelf
    /\ aborted = FALSE
    /\ raised = FALSE
    /\ last = NoLast
    /\ registry = NoRegistry

\* what a run's surroundings may give Test(): the orders in which a set of
\* language codes is listed, and the readings of the wall clock
ListingsFor(t) == IF t = "SetLanguage" THEN Listings ELSE {<<>>}

ClockFor(t) == IF t = "SetRealTimeClock" THEN Clock ELSE {0}

\* Test() of t in a run that lists sets as q and reads the clock as n
Run(t, q, n) == Test(t, [Ctx(t) EXCEPT !.listing = q, !.now = n])

\* the scheduler hands the next test of the order to the controller: a test
\* with a required fact missing is marked NOT_RUN and its body is not run
Execute ==
    /\ Len(order) = Cardinality(catalog)
    /\ pc < Len(order)
    /\ cstate \in {"IDLE", "TERMINAL"}
    /\ ~aborted
    /\ ~raised
    /\ LET t == order[pc + 1]
       IN IF REQUIRES(t) \subseteq provided
          THEN \E q \in ListingsFor(t), n \in ClockFor(t) :
                   Commit(Run(t, q, n))
          ELSE Commit(Stop(SetNotRun(Ctx(t))))

\* the replies the responder may give to the outstanding request
Replies ==
    IF cstate = "AWAITING" /\ sent # <<>>
    THEN Responses(sent[Len(sent)])
    ELSE {}

Deliver(r) ==
    /\ cstate = "AWAITING"
    /\ r \in Replies
    /\ Commit(HandleResponse(Here, r))

Timeout ==
    /\ cstate = "AWAITING"
    /\ Commit(HandleTimeout(Here))

\* the controller calls the ended test's ResetState and, when it sent a
\* request, waits for the exchange to finish
ResetState ==
    /\ cstate = "RESET_PENDING"
    /\ LET s == SetPowerState_ResetState(Here)
       IN /\ outstanding' = s.outstanding
          /\ sent' = s.sent
          /\ cstate' = IF s.outstanding = 0 THEN "TERMINAL" ELSE "RESETTING"
    /\ UNCHANGED <<catalog, supported, order, pc, cur, expected, props,
                   provided, nwrites, mlog, verdict, nwarn, self, aborted,
                   raised, last, registry>>

\* the reset exchange ends with a response or a timeout
ResetDone ==
    /\ cstate = "RESETTING"
    /\ outstanding' = outstanding - 1
    /\ cstate' = "TERMINAL"
    /\ UNCHANGED <<catalog, supported, order, pc, cur, expected, sent, props,
                   provided, nwrites, mlog, verdict, nwarn, self, aborted,
                   raised, last, registry>>

\* a run-level abort recorded as a failure of the interrupted test
Abort_AsFailure ==
    /\ cstate = "AWAITING"
    /\ aborted' = TRUE
    /\ verdict' = [verdict EXCEPT ![cur] = "FAILED"]
    /\ cstate' = "TERMINAL"
    /\ outstanding' = 0
    /\ pc' = pc + 1
    /\ last' = [NoLast EXCEPT !.kind = "ABORT", !.sentBefore = Len(sent),
                              !.acked = last.acked]
    /\ UNCHANGED <<catalog, supported, order, cur, expected, sent, props,
                   provided, nwrites, mlog, nwarn, self, raised, registry>>

\* run-level abort while a test is mid-chain
Abort ==
    /\ cstate = "AWAITING"
    /\ aborted' = TRUE
    /\ verdict' = [verdict EXCEPT ![cur] = "BROKEN"]
    /\ cstate' = "TERMINAL"
    /\ outstanding' = 0
    /\ pc' = pc + 1
    /\ last' = [NoLast EXCEPT !.kind = "ABORT", !.sentBefore = Len(sent),
                              !.acked = last.acked]
    /\ UNCHANGED <<catalog, supported, order, cur, expected, sent, props,
                   provided, nwrites, mlog, nwarn, self, raised, registry>>

Next ==
    \/ \E t \in Tests : Schedule(t)
    \/ Execute
    \/ \E r \in Replies : Deliver(r)
    \/ Timeout
    \/ ResetState
    \/ ResetDone
    \/ Abort

Spec == Init /\ [][Next]_vars

(***************************************************************************)
(* A run whose scheduler breaks ties by declaration order                  *)
(***************************************************************************)
\* the ready descriptor the catalog declares first
FirstReady(t) ==
    /\ Ready(t)
    /\ \A u \in Tests : Ready(u) => Declared(t) <= Declared(u)

ScheduleNext == \E t \in Tests : FirstReady(t) /\ Schedule(t)

NextRun ==
    \/ ScheduleNext
    \/ Execute
    \/ \E r \in Replies : Deliver(r)
    \/ Timeout
    \/ ResetState
    \/ ResetDone
    \/ Abort

SpecRun == Init /\ [][NextRun]_vars

(***************************************************************************)
(* Scheduling alone, over every small selection of the descriptors that    *)
(* depend on one another                                                   *)
(***************************************************************************)
\* most descriptors a scheduled selection holds
MaxCatalog == 4

SchedTests ==
    {"GetDeviceInfo", "FindSubDevices", "GetPersonalities", "SetPersonality",
     "GetSensorDefinition", "GetSensorValues", "GetStartAddress",
     "SetOutOfRangeStartAddress", "GetPersonalityDescription",
     "GetPersonality", "SetZeroStartAddress", "SetOversizedStartAddress",
     "SetStartAddress"}

InitSched ==
    /\ catalog \in {c \in SUBSET SchedTests : Cardinality(c) <= MaxCatalog}
    /\ supported = {}
    /\ order = <<>>
    /\ pc = 0
    /\ cur = "None"
    /\ cstate = "IDLE"
    /\ expected = <<>>
    /\ outstanding = 0
    /\ sent = <<>>
    /\ props = [n \in FactNames |-> FactDefault(n)]
    /\ provided = {}
    /\ nwrites = [n \in FactNames |-> 0]
    /\ mlog = {}
    /\ verdict = [t \in Tests |-> "PENDING"]
    /\ nwarn = 0
    /\ self = InitSelf
    /\ aborted = FALSE
    /\ raised = FALSE
    /\ last = NoLast
    /\ registry = NoRegistry

NextSched == \E t \in Tests : Schedule(t)

SpecSched == InitSched /\ [][NextSched]_vars

(***************************************************************************)
(* Loading a module of tables                                              *)
(***************************************************************************)
InitTables ==
    /\ registry \in {[NoRegistry EXCEPT !.text = t, !.phase = "SOURCE"] :
                        t \in Texts}
    /\ catalog = {}
    /\ supported = {}
    /\ order = <<>>
    /\ pc = 0
    /\ cur = "None"
    /\ cstate = "IDLE"
    /\ expected = <<>>
    /\ outstanding = 0
    /\ sent = <<>>
    /\ props = [n \in FactNames |-> FactDefault(n)]
    /\ provided = {}
    /\ nwrites = [n \in FactNames |-> 0]
    /\ mlog = {}
    /\ verdict = [t \in Tests |-> "PENDING"]
    /\ nwarn = 0
    /\ self = InitSelf
    /\ aborted = FALSE
    /\ raised = FALSE
    /\ last = NoLast

\* the file is compiled as a whole before any of its statements is run: a
\* malformed entry anywhere ends the import with a SyntaxError
Compile ==
    /\ registry.phase = "SOURCE"
    /\ registry' = [registry EXCEPT
                      !.phase = IF Compiles(registry.text)
                                THEN "RUNNING"
                                ELSE "SYNTAX_ERROR"]
    /\ UNCHANGED runvars

\* NAME = { ... }
BuildTable ==
    /\ registry.phase = "RUNNING"
    /\ registry.line % 2 = 0
    /\ registry' = [registry EXCEPT
                      !.line = @ + 1,
                      !.forward = Put(@, NextStatement.table,
                                      DictOf(NextStatement.entries))]
    /\ UNCHANGED runvars

\* NAME_TO_NAME = _ReverseDict(NAME)
BuildReverse ==
    /\ registry.phase = "RUNNING"
    /\ registry.line % 2 = 1
    /\ LET input == registry.forward[NextStatement.table]
       IN \E keys \in IterItems(input) :
              registry' = [registry EXCEPT
                             !.line = @ + 1,
                             !.phase = IF registry.line + 1 =
                                          2 * Len(registry.text)
                                       THEN "LOADED"
                                       ELSE "RUNNING",
                             !.reverse = Put(@, NextStatement.reverse,
                                             ReverseDict(input, keys))]
    /\ UNCHANGED runvars

NextTables ==
    \/ Compile
    \/ BuildTable
    \/ BuildReverse

SpecTables == InitTables /\ [][NextTables]_vars

\* t is placed in the order before u
Before(t, u) == InOrder(t) /\ (InOrder(u) => Position(t) < Position(u))

\* C1: in every order the scheduler produces, no test comes before a
\* descriptor of the catalog whose PROVIDES intersects the test's REQUIRES;
\* in particular FindSubDevices, GetPersonalities, GetSensorDefinition and
\* GetStartAddress never come before GetDeviceInfo, nor GetSensorValues
\* before GetSensorDefinition
C1_ProducersFirst ==
    /\ \A t \in catalog : \A u \in catalog :
           (InOrder(t) /\ PROVIDES(u) \cap REQUIRES(t) # {}) => Before(u, t)
    /\ \A t \in {"FindSubDevices", "GetPersonalities", "GetSensorDefinition",
                 "GetStartAddress"} :
           (InOrder(t) /\ "GetDeviceInfo" \in catalog)
               => Before("GetDeviceInfo", t)
    /\ (InOrder("GetSensorValues") /\ "GetSensorDefinition" \in catalog)
           => Before("GetSensorDefinition", "GetSensorValues")

\* a complete order in which GetSensorValues, GetSensorDefinition and
\* GetDeviceInfo are all placed
C1_Witness ==
    /\ Len(order) = Cardinality(catalog)
    /\ {"GetDeviceInfo", "GetSensorDefinition", "GetSensorValues",
        "FindSubDevices"} \subseteq catalog

(***************************************************************************)
(* Single outstanding request                                              *)
(***************************************************************************)
\* the requests the step from the unprimed to the primed state sends: a
\* test that starts begins a fresh list of sent requests
SentInStep ==
    IF cstate \in {"IDLE", "TERMINAL"}
    THEN Len(sent')
    ELSE Len(sent') - Len(sent)

\* C2: at most one request is outstanding at any time; each Test(), each
\* continuation action and each ResetState sends at most one request, and
\* a request is sent only when no earlier request still awaits its response
\* or timeout
C2_OneOutstanding ==
    /\ [](outstanding \in {0, 1})
    /\ [][/\ SentInStep \in {0, 1}
          /\ SentInStep = 1 => outstanding' = 1]_vars

\* SetIdentifyDevice awaits the response to the third request of its chain
C2_Witness ==
    /\ cur = "SetIdentifyDevice"
    /\ cstate = "AWAITING"
    /\ Len(sent) = 3
    /\ outstanding = 1

(***************************************************************************)
(* Expectation Matcher                                                     *)
(***************************************************************************)
\* the positions of the last outcome list whose class is that of the last
\* response: ACK, or NACK with the same reason code
ClassHits ==
    {i \in 1..Len(last.exp) :
        \/ last.exp[i].ack /\ last.resp.kind = "ACK"
        \/ /\ ~last.exp[i].ack
           /\ last.resp.kind = "NACK"
           /\ last.exp[i].reason = last.resp.reason}

\* a response has been handled by the matcher
Responded == last.kind \in {"ACK", "NACK"}

\* C3: the matcher selects the first pattern in list order whose response
\* class equals the response's class, whether or not the response meets
\* that pattern's field constraints; for GetStartAddress's zero-footprint
\* list [ACK, NACK(NR_UNKNOWN_PID)] and a NACK(NR_UNKNOWN_PID) response it
\* selects the second pattern
C3_FirstClassMatch ==
    Responded =>
        /\ ClassHits = {} => last.matched = 0
        /\ ClassHits # {} =>
               /\ last.matched \in ClassHits
               /\ \A i \in ClassHits : last.matched <= i
        /\ (/\ cur = "GetStartAddress"
            /\ props["dmx_footprint"] = 0
            /\ last.resp.kind = "NACK"
            /\ last.resp.reason = "NR_UNKNOWN_PID") => last.matched = 2

\* GetStartAddress, zero footprint: the list is [ACK, NACK(NR_UNKNOWN_PID)],
\* the response is that NACK and the second pattern is selected
C3_Witness ==
    /\ cur = "GetStartAddress"
    /\ Responded
    /\ Len(last.exp) = 2
    /\ last.exp[1].ack
    /\ last.resp.kind = "NACK"
    /\ last.matched = 2

\* C4: a response whose class matches none of the registered patterns gives
\* the verdict FAILED, never PASSED, and no continuation action runs: so for
\* GetIdentifyDeviceWithData any response but NACK(NR_FORMAT_ERROR), and for
\* FindSubDevices any NACK but NR_SUB_DEVICE_OUT_OF_RANGE
C4_UnmatchedFails ==
    /\ (Responded /\ last.matched = 0) =>
           /\ verdict[cur] = "FAILED"
           /\ last.nactions = 0
           /\ cstate # "AWAITING"
    /\ (/\ cur = "GetIdentifyDeviceWithData"
        /\ Responded
        /\ ~(last.resp.kind = "NACK" /\ last.resp.reason = "NR_FORMAT_ERROR"))
           => verdict[cur] = "FAILED"
    /\ (/\ cur = "FindSubDevices"
        /\ Responded
        /\ last.resp.kind = "NACK"
        /\ last.resp.reason # "NR_SUB_DEVICE_OUT_OF_RANGE")
           => verdict[cur] = "FAILED" /\ last.nactions = 0

\* GetIdentifyDeviceWithData received an ACK, which its list does not name
C4_Witness ==
    /\ cur = "GetIdentifyDeviceWithData"
    /\ Responded
    /\ last.resp.kind = "ACK"
    /\ last.matched = 0
    /\ verdict[cur] = "FAILED"

\* C5: when the response's class matches the selected pattern but a decoded
\* field violates the pattern's field constraint the verdict is FAILED, never
\* PASSED with a warning: so for an ACK to GetPersonalityDescription whose
\* personality or slots_required differs from the DEVICE_INFO facts, and for
\* an ACK to ClearCommsStatus's read-back with a counter that is not zero
C5_FieldViolationFails ==
    /\ (Responded /\ last.matched # 0 /\ ~last.fieldsOk) =>
           /\ verdict[cur] = "FAILED"
           /\ last.nactions = 0
    /\ (/\ cur = "GetPersonalityDescription"
        /\ Responded
        /\ last.resp.kind = "ACK"
        /\ \/ last.resp.f["personality"] # props["current_personality"]
           \/ last.resp.f["slots_required"] # props["dmx_footprint"])
           => verdict[cur] = "FAILED"
    /\ (/\ cur = "ClearCommsStatus"
        /\ Responded
        /\ last.resp.kind = "ACK"
        /\ last.resp.cc = "GET"
        /\ \E n \in {"short_message", "length_mismatch", "checksum_fail"} :
               last.resp.f[n] # 0)
           => verdict[cur] = "FAILED"

\* GetPersonalityDescription is supported and answers with an ACK whose
\* slots_required is not the footprint DEVICE_INFO gave
C5_Witness ==
    /\ cur = "GetPersonalityDescription"
    /\ Responded
    /\ last.matched = 1
    /\ last.resp.kind = "ACK"
    /\ last.resp.f["personality"] = props["current_personality"]
    /\ last.resp.f["slots_required"] # props["dmx_footprint"]
    /\ verdict[cur] = "FAILED"

(***************************************************************************)
(* Required facts                                                          *)
(***************************************************************************)
\* t has been handed to the controller
Started(t) == InOrder(t) /\ (Position(t) <= pc \/ (cur = t /\ cstate # "IDLE"))

\* C6: a test one of whose required facts is absent from the Property Store
\* at its scheduled position ends NOT_RUN, sends no request and does nothing
\* else: so GetProxiedDeviceCount without proxied_devices, and SetPersonality
\* without current_personality, personality_count or personalities
C6_AbsentFactNotRun ==
    /\ \A t \in catalog :
           (Started(t) /\ ~(REQUIRES(t) \subseteq provided)) =>
               /\ verdict[t] = "NOT_RUN"
               /\ cur = t => (sent = <<>> /\ outstanding = 0)
               /\ \A e \in mlog : e[1] # t
    /\ (Started("GetProxiedDeviceCount") /\ "proxied_devices" \notin provided)
           => verdict["GetProxiedDeviceCount"] = "NOT_RUN"
    /\ (/\ Started("SetPersonality")
        /\ cur = "SetPersonality"
        /\ ~({"current_personality", "personality_count", "personalities"}
                \subseteq provided))
           => verdict["SetPersonality"] = "NOT_RUN" /\ sent = <<>>

\* SetPersonality is reached after a GetDeviceInfo that published nothing
C6_Witness ==
    /\ cur = "SetPersonality"
    /\ cstate = "TERMINAL"
    /\ "personality_count" \notin provided
    /\ verdict["GetDeviceInfo"] = "FAILED"
    /\ verdict["SetPersonality"] = "NOT_RUN"
    /\ sent = <<>>

(***************************************************************************)
(* Where the store is written and diagnostics are raised                   *)
(***************************************************************************)
\* the tests that scan a range of indices with one step method, which runs
\* from Test() and again as the continuation of each response
IteratingTests ==
    {"FindSubDevices", "GetPersonalities", "GetSensorDefinition",
     "GetSensorValues", "FindSelfTests"}

C8_WriteOnce ==
    /\ \A n \in FactNames : nwrites[n] <= 1
    /\ \A t \in Tests : \A u \in Tests :
           t # u => PROVIDES(t) \cap PROVIDES(u) = {}
    /\ \A e \in mlog : e[3] = "SetProperty" => e[4] \in PROVIDES(e[1])

\* GetStartAddress got an ACK whose address differs from DEVICE_INFO's: it
\* failed, and wrote dmx_address once
C8_Witness ==
    /\ cur = "GetStartAddress"
    /\ Responded
    /\ last.resp.kind = "ACK"
    /\ last.resp.f["dmx_address"] # props["dmx_start_address"]
    /\ verdict[cur] = "FAILED"
    /\ nwrites["dmx_address"] = 1

(***************************************************************************)
(* Continuation actions                                                    *)
(***************************************************************************)
\* the step handles a response that matched a pattern, fields included
DeliverMatched ==
    /\ cstate = "AWAITING"
    /\ last' # last
    /\ last'.kind \in {"ACK", "NACK"}
    /\ last'.matched # 0
    /\ last'.fieldsOk

\* the verification of the response handled by this step raised an error:
\* the error left the controller before a continuation was entered
VerificationRaised == raised' /\ last'.nactions = 0

AckedIndices == [i \in 1..Len(last.acked) |-> sent[last.acked[i]].sub]

\* C10: with sub_device_count M > 0, FindSubDevices queries the sub-device
\* indices 1, 2, 3, ... in increasing order; it sends no further request
\* once the number of ACKed indices equals M, and does not stop for the
\* count before that; the sub_device_indices fact it then publishes is the
\* list of the ACKed indices
C10_FindSubDevicesScan ==
    (cur = "FindSubDevices" /\ props["sub_device_count"] > 0) =>
        LET M == props["sub_device_count"]
        IN /\ \A i \in 1..Len(sent) :
                  /\ sent[i].sub = i
                  /\ sent[i].cc = "GET"
                  /\ sent[i].pid = "DEVICE_INFO"
           /\ Len(AckedIndices) <= M
           /\ cstate = "AWAITING" => Len(AckedIndices) < M
           /\ (Len(AckedIndices) = M /\ last.matched # 0) =>
                  /\ cstate # "AWAITING"
                  /\ Len(sent) = last.sentBefore
                  /\ "sub_device_indices" \in provided
                  /\ verdict[cur] = "PASSED"
           /\ "sub_device_indices" \in provided =>
                  /\ props["sub_device_indices"] = AckedIndices
                  /\ Len(AckedIndices) = M

\* two sub-devices declared; index 2 was answered out of range, 1 and 3 were
\* ACKed, and the scan stopped there publishing <<1, 3>>
C10_Witness ==
    /\ cur = "FindSubDevices"
    /\ props["sub_device_count"] = 2
    /\ Len(sent) = 3
    /\ cstate = "TERMINAL"
    /\ props["sub_device_indices"] = <<1, 3>>
    /\ verdict[cur] = "PASSED"

\* C11: FindSubDevices ends FAILED with "Only found N of M" exactly when
\* every index of 1..MAX_VALID_SUB_DEVICE has been queried once and answered
\* and fewer than M of them ACKed; no index above MAX_VALID_SUB_DEVICE is
\* queried; an ACK at index MAX_VALID_SUB_DEVICE that completes the count
\* ends the test PASSED with the fact published
C11_OnlyFoundWhenExhausted ==
    cur = "FindSubDevices" =>
        LET M == props["sub_device_count"]
            onlyFound == /\ verdict[cur] = "FAILED"
                         /\ last.why.msg = "Only found"
            exhausted == /\ cstate = "TERMINAL"
                         /\ Len(sent) = MAX_VALID_SUB_DEVICE
                         /\ last.matched # 0
                         /\ last.fieldsOk
                         /\ Len(AckedIndices) < M
        IN /\ \A i \in 1..Len(sent) :
                  sent[i].sub = i /\ i <= MAX_VALID_SUB_DEVICE
           /\ onlyFound <=> exhausted
           /\ onlyFound => /\ last.why.n = Len(AckedIndices)
                           /\ last.why.m = M
                           /\ "sub_device_indices" \notin provided
           /\ (/\ Len(sent) = MAX_VALID_SUB_DEVICE
               /\ last.resp.kind = "ACK"
               /\ last.matched # 0
               /\ Len(AckedIndices) = M) =>
                  /\ verdict[cur] = "PASSED"
                  /\ cstate = "TERMINAL"
                  /\ props["sub_device_indices"] = AckedIndices

\* two sub-devices declared, only one of the indices 1..3 ACKed: the range is
\* exhausted and the test FAILED with "Only found 1 of 2"
C11_Witness ==
    /\ cur = "FindSubDevices"
    /\ verdict[cur] = "FAILED"
    /\ last.why = Message("Only found", 1, 2)
    /\ Len(sent) = MAX_VALID_SUB_DEVICE
    /\ last.resp.kind = "NACK"

\* C12: when the discovered sub_device_count is 0, FindSubDevices reports
\* NOT_RUN and sends no request
C12_NoSubDevicesNotRun ==
    (/\ cur = "FindSubDevices"
     /\ "sub_device_count" \in provided
     /\ props["sub_device_count"] = 0) =>
        /\ verdict[cur] = "NOT_RUN"
        /\ sent = <<>>
        /\ outstanding = 0
        /\ cstate = "TERMINAL"

\* GetDeviceInfo published a sub_device_count of 0 and FindSubDevices ran
C12_Witness ==
    /\ cur = "FindSubDevices"
    /\ verdict["GetDeviceInfo"] = "PASSED"
    /\ "sub_device_count" \in provided
    /\ props["sub_device_count"] = 0
    /\ verdict[cur] = "NOT_RUN"
    /\ "sub_device_indices" \in provided

(***************************************************************************)
(* Set, then verify                                                        *)
(***************************************************************************)
\* the field of the read-back GET that carries the value a test has SET
SetField(t) ==
    CASE t = "SetDeviceLabel" -> "label"
      [] t = "SetLanguage" -> "language"
      [] t = "SetStartAddress" -> "dmx_address"

\* C13: a set-then-verify test (SetDeviceLabel, SetLanguage,
\* SetStartAddress) sends the SET first, sends the follow-up GET only after
\* the SET was ACKed, and ends FAILED if the value the GET returns differs
\* from the value just SET
C13_SetThenVerify ==
    cur \in {"SetDeviceLabel", "SetLanguage", "SetStartAddress"} =>
        /\ sent # <<>> => /\ sent[1].cc = "SET"
                          /\ sent[1].pid = PID(cur)
                          /\ sent[1].sub = ROOT_DEVICE
        /\ Len(sent) >= 2 => /\ sent[2].cc = "GET"
                             /\ sent[2].pid = PID(cur)
                             /\ last.acked # <<>>
                             /\ last.acked[1] = 1
        /\ (/\ Len(sent) >= 2
            /\ last.sentBefore = 2
            /\ last.resp.kind = "ACK"
            /\ last.resp.f[SetField(cur)] # sent[1].arg) =>
               /\ verdict[cur] = "FAILED"
               /\ Len(sent) = 2
               /\ cstate = "TERMINAL"

\* SetLanguage's SET was ACKed and the GET returned another language
C13_Witness ==
    /\ cur = "SetLanguage"
    /\ Len(sent) = 2
    /\ last.acked = <<1, 2>>
    /\ last.resp.f["language"] # sent[1].arg
    /\ verdict[cur] = "FAILED"

(***************************************************************************)
(* Failure isolation                                                       *)
(***************************************************************************)
\* the running test has ended FAILED or BROKEN
Failed == cur \in Tests /\ verdict[cur] \in {"FAILED", "BROKEN"}

C15_AbortBreaksAndEndsRun ==
    /\ [][(aborted' /\ ~aborted) =>
             /\ cstate = "AWAITING"
             /\ cur' = cur
             /\ verdict'[cur] = "BROKEN"
             /\ sent' = sent]_vars
    /\ [](aborted =>
             /\ verdict[cur] = "BROKEN"
             /\ cstate = "TERMINAL"
             /\ outstanding = 0
             /\ cur = order[pc]
             /\ \A i \in (pc + 1)..Len(order) : verdict[order[i]] = "PENDING")
    /\ [][aborted => (sent' = sent /\ cur' = cur /\ verdict' = verdict
                       /\ aborted')]_vars

\* the run was aborted while GetPowerState awaited its response; the
\* SetPowerState scheduled after it is never started
C15_Witness ==
    /\ aborted
    /\ cur = "GetPowerState"
    /\ Len(sent) = 1
    /\ verdict[cur] = "BROKEN"
    /\ pc < Len(order)
    /\ order[pc + 1] = "SetPowerState"
    /\ verdict["SetPowerState"] = "PENDING"
(***************************************************************************)
(* Timeout                                                                 *)
(***************************************************************************)
\* C16: when no response arrives before the transport timeout the awaiting
\* test ends FAILED with reason "no response"; no continuation action runs
\* and the unanswered request is not sent again
C16_TimeoutFails ==
    /\ [][(cstate = "AWAITING" /\ last'.kind = "TIMEOUT") =>
             /\ cur' = cur
             /\ verdict'[cur] = "FAILED"
             /\ last'.why.msg = "no response"
             /\ last'.nactions = 0
             /\ sent' = sent
             /\ expected' = expected
             /\ outstanding' = 0
             /\ cstate' \in {"TERMINAL", "RESET_PENDING"}]_vars
    /\ [](last.kind = "TIMEOUT" =>
             /\ verdict[cur] = "FAILED"
             /\ cstate # "AWAITING"
             /\ \A i \in (last.sentBefore + 1)..Len(sent) :
                    sent[i] # sent[last.sentBefore])

\* ClearCommsStatus's SET was ACKed and its read-back GET got no response
C16_Witness ==
    /\ cur = "ClearCommsStatus"
    /\ last.kind = "TIMEOUT"
    /\ last.acked = <<1>>
    /\ Len(sent) = 2
    /\ verdict[cur] = "FAILED"
    /\ last.why.msg = "no response"

(***************************************************************************)
(* Determinism of a run                                                    *)
(***************************************************************************)
\* the step in which the controller runs Test() of the next test in order
ExecuteStep ==
    /\ cstate \in {"IDLE", "TERMINAL"}
    /\ order' = order
    /\ pc < Len(order)
    /\ pc' # pc \/ cstate' = "AWAITING"
    /\ REQUIRES(order[pc + 1]) \subseteq provided

\* the run's successor agrees with what Test() makes of the same state when
\* sets are listed as q and the clock reads n
SameAs(q, n) ==
    LET t == order[pc + 1]
        s == Run(t, q, n)
    IN /\ cur' = t
       /\ sent' = s.sent
       /\ expected' = s.expected
       /\ verdict'[t] = s.v

\* as SameAs, but for the data carried by the requests
SameButData(q, n) ==
    LET t == order[pc + 1]
        s == Run(t, q, n)
    IN /\ cur' = t
       /\ Len(sent') = Len(s.sent)
       /\ \A i \in 1..Len(s.sent) :
              [sent'[i] EXCEPT !.arg = 0] = [s.sent[i] EXCEPT !.arg = 0]
       /\ expected' = s.expected
       /\ verdict'[t] = s.v

\* the scheduler places the first-declared ready descriptor, and a reply
\* determines what the controller makes of it
OrderAndRepliesDetermined ==
    /\ [][order' # order =>
             \E t \in Tests : FirstReady(t) /\ order' = Append(order, t)]_vars
    /\ [][(cstate = "AWAITING" /\ last'.kind \in {"ACK", "NACK"}) =>
             LET s == HandleResponse(Here, last'.resp)
             IN /\ sent' = s.sent
                /\ expected' = s.expected
                /\ verdict'[cur] = s.v
                /\ props' = s.props]_vars

ImportEnded == registry.phase \in {"LOADED", "SYNTAX_ERROR"}

\* no two names of the table share a code
OneNamePerCode(forward) ==
    \A a, b \in DOMAIN forward : forward[a] = forward[b] => a = b

\* forward and reverse are each other's inverse
InverseTables(forward, reverse) ==
    /\ \A a \in DOMAIN forward :
          forward[a] \in DOMAIN reverse /\ reverse[forward[a]] = a
    /\ \A c \in DOMAIN reverse :
          reverse[c] \in DOMAIN forward /\ forward[reverse[c]] = c

\* C18: once RDMConstants has been imported, each of its nine tables and the
\* reverse table _ReverseDict built from it are there, reverse[forward[name]]
\* is name for every name, forward[reverse[code]] is code for every code, and
\* no two names of a table share a code
C18_TablesRoundTrip ==
    registry.text = RDMConstants /\ ImportEnded =>
        \A k \in DOMAIN RDMConstants :
            LET st == RDMConstants[k]
            IN /\ st.table \in DOMAIN registry.forward
               /\ st.reverse \in DOMAIN registry.reverse
               /\ InverseTables(registry.forward[st.table],
                                registry.reverse[st.reverse])
               /\ OneNamePerCode(registry.forward[st.table])

\* C19: no reverse table is ever built from a forward table in which two
\* names share a code: building it ends with an error instead
C19_SharedCodeRejected ==
    \A k \in DOMAIN registry.text :
        LET st == registry.text[k]
        IN st.reverse \in DOMAIN registry.reverse =>
               OneNamePerCode(registry.forward[st.table])


(***************************************************************************)
(* C20: warnings and advisories                                            *)
(***************************************************************************)
\* the fields of a test's context that logging a warning may change
WarningFields == {"nwarn", "mlog"}

\* a logged warning or advisory leaves everything else of the context as it
\* was: the verdict, the stop flag, the requests, the store
WarningFrame ==
    cur \in Tests =>
        \A k \in DOMAIN Here \ WarningFields :
            /\ AddWarning(Here)[k] = Here[k]
            /\ AddAdvisory(Here)[k] = Here[k]

\* GetSensorValues is handed a matched ACK that names another sensor than the
\* one it asked for
SensorMismatchStep ==
    /\ cur = "GetSensorValues"
    /\ DeliverMatched
    /\ last'.kind = "ACK"
    /\ self.queue # <<>>
    /\ last'.resp.f["sensor_number"] # self.queue[1]["sensor_number"]

\* C20: a warning or advisory changes neither the verdict nor the chain.
\* GetSensorValues, having warned that the reply names another sensor, drops
\* the reply and goes on: it asks for the next sensor, or with none left
\* publishes sensor_values and ends PASSED.  GetDeviceInfo, handed a matching
\* reply, ends PASSED with its six facts published from the reply, whatever
\* warnings and advisories it logs
C20_WarningsChangeNothing ==
    /\ []WarningFrame
    /\ [][SensorMismatchStep =>
             /\ nwarn' = nwarn + 1
             /\ self'.sensor_values = self.sensor_values
             /\ self'.queue = Tail(self.queue)
             /\ verdict'[cur] = "PASSED"
             /\ IF Tail(self.queue) = <<>>
                THEN /\ cstate' # "AWAITING"
                     /\ sent' = sent
                     /\ "sensor_values" \in provided'
                     /\ props'["sensor_values"] = self.sensor_values
                ELSE /\ cstate' = "AWAITING"
                     /\ sent' = Append(sent,
                                   Request("GET", ROOT_DEVICE, "SENSOR_VALUE",
                                       self.queue[2]["sensor_number"]))]_vars
    /\ [][cur = "GetDeviceInfo" /\ DeliverMatched =>
             /\ verdict'[cur] = "PASSED"
             /\ cstate' # "AWAITING"
             /\ PROVIDES(cur) \subseteq provided'
             /\ \A n \in PROVIDES(cur) : props'[n] = last'.resp.f[n]]_vars

\* GetSensorValues asked for its first sensor, was ACKed with another
\* sensor's number, logged the warning, kept no value and has asked for the
\* second sensor
C20_Witness ==
    /\ cur = "GetSensorValues"
    /\ cstate = "AWAITING"
    /\ Len(sent) = 2
    /\ last.kind = "ACK"
    /\ last.resp.f["sensor_number"] # sent[1].arg
    /\ nwarn = 1
    /\ self.sensor_values = <<>>
    /\ verdict[cur] = "PASSED"


(***************************************************************************)
(* C21: a precondition that fails in Test()                                *)
(***************************************************************************)
\* SetUnsupportedLanguage has been given to the controller with the fact it
\* requires
UnsupportedLanguageRan ==
    /\ cur = "SetUnsupportedLanguage"
    /\ verdict[cur] # "NOT_RUN"

\* C21: SetUnsupportedLanguage ends BROKEN without a request when 'zz' is
\* among the languages discovered, and otherwise sends one SET of LANGUAGE
\* to 'zz' and nothing else
C21_BrokenBeforeAnyRequest ==
    UnsupportedLanguageRan =>
        IF ZZ \in props["languages_capabilities"]
        THEN /\ verdict[cur] = "BROKEN"
             /\ sent = <<>>
             /\ cstate = "TERMINAL"
             /\ outstanding = 0
        ELSE /\ sent = <<Request("SET", ROOT_DEVICE, "LANGUAGE", ZZ)>>
             /\ verdict[cur] = "BROKEN" => aborted

\* 'zz' was advertised and the test broke off with nothing sent
C21_Witness ==
    /\ UnsupportedLanguageRan
    /\ ZZ \in props["languages_capabilities"]
    /\ verdict[cur] = "BROKEN"
    /\ sent = <<>>


(***************************************************************************)
(* C22: manufacturer-specific parameters                                   *)
(***************************************************************************)
\* RDMConstants.py: the range of the manufacturer-specific PIDs
RDM_MANUFACTURER_PID_MIN == 32768

RDM_MANUFACTURER_PID_MAX == 65503

InManufacturerRange(param_id) ==
    RDM_MANUFACTURER_PID_MIN <= param_id /\ param_id <= RDM_MANUFACTURER_PID_MAX

\* the reported param_ids that are neither banned nor mandatory and lie in
\* the manufacturer range
ManufacturerSpecific(params) ==
    {p \in Range(params) :
        /\ InManufacturerRange(p)
        /\ p \notin BANNED_PID_VALUES
        /\ p \notin {PidValue(n) : n \in MANDATORY_PIDS}}

\* C22: the manufacturer_parameters GetSupportedParameters publishes from an
\* ACK are the reported param_ids, in the order reported, that lie in
\* RDM_MANUFACTURER_PID_MIN..RDM_MANUFACTURER_PID_MAX and are neither banned
\* nor mandatory; every element published lies in that range
C22_ManufacturerRange ==
    /\ "manufacturer_parameters" \in provided =>
           \A i \in DOMAIN props["manufacturer_parameters"] :
               InManufacturerRange(props["manufacturer_parameters"][i])
    /\ (/\ cur = "GetSupportedParameters"
        /\ cstate = "TERMINAL"
        /\ last.kind = "ACK"
        /\ last.matched # 0) =>
           /\ "manufacturer_parameters" \in provided
           /\ LET params == last.resp.f["params"]
              IN props["manufacturer_parameters"] =
                     SelectSeq2(params, ManufacturerSpecific(params))

\* the responder listed 0xffdf and 0xffe0: only the first was published as
\* manufacturer-specific
C22_Witness ==
    /\ cur = "GetSupportedParameters"
    /\ cstate = "TERMINAL"
    /\ last.kind = "ACK"
    /\ last.resp.f["params"] = <<65503, 65504>>
    /\ props["manufacturer_parameters"] = <<65503>>
    /\ props["supported_parameters"] = <<65503, 65504>>


(***************************************************************************)
(* C23: explicit ordering dependencies                                     *)
(***************************************************************************)
\* <<u, t>>: the catalog declares that t is to run after u
OrderedAfter ==
    {<<"GetPersonality", "SetPersonality">>,
     <<"GetPersonalityDescription", "SetPersonality">>,
     <<"GetStartAddress", "SetOutOfRangeStartAddress">>,
     <<"GetStartAddress", "SetZeroStartAddress">>,
     <<"GetStartAddress", "SetOversizedStartAddress">>}

\* C23: in every schedule SetPersonality comes after GetPersonality and
\* GetPersonalityDescription, and SetOutOfRangeStartAddress,
\* SetZeroStartAddress and SetOversizedStartAddress come after
\* GetStartAddress, whenever both are scheduled, and no fact that the first
\* provides is required by the second
C23_DepsOrdered ==
    \A p \in OrderedAfter :
        /\ PROVIDES(p[1]) \cap REQUIRES(p[2]) = {}
        /\ (p[1] \in catalog /\ InOrder(p[2])) =>
               /\ InOrder(p[1])
               /\ Position(p[1]) < Position(p[2])

\* GetStartAddress was placed first and the three SETs that depend on it
\* after it
C23_Witness ==
    /\ catalog = {"GetStartAddress", "SetOutOfRangeStartAddress",
                  "SetZeroStartAddress", "SetOversizedStartAddress"}
    /\ Len(order) = 4
    /\ order[1] = "GetStartAddress"
    /\ order[4] = "SetZeroStartAddress"


(***************************************************************************)
(* C24: facts and their evidence                                           *)
(***************************************************************************)
\* the store writes made so far
Writes == {e \in mlog : e[3] = "SetProperty"}

\* C24: a test writes a fact to the Property Store neither after its verdict
\* has been set to FAILED or NOT_RUN nor in Test(), before it has received a
\* response
C24_PublishedOnValidatedEvidence ==
    \A e \in Writes :
        /\ e[5] \notin {"FAILED", "NOT_RUN"}
        /\ e[2] # "Test"


(***************************************************************************)
(* C25: GetPersonalities and the largest personality count                 *)
(***************************************************************************)
\* every request the current test has sent and had answered was ACKed
AllAcked == Len(last.acked) = Len(sent) - outstanding

\* C25: whatever personality_count DEVICE_INFO declared, GetPersonalities
\* does not end FAILED with 'Could not find all personalities' when the
\* responder has ACKed every personality it was asked for
C25_NeverCouldNotFind ==
    (cur = "GetPersonalities" /\ AllAcked) =>
        ~(/\ verdict[cur] = "FAILED"
          /\ last.why = Message("Could not find all personalities", 0, 0))


(***************************************************************************)
(* C26: the language SetLanguage picks                                     *)
(***************************************************************************)
\* C26: given a non-empty set of advertised languages, SetLanguage.Test ends
\* without an out-of-range list access with new_language picked from the
\* set, and with two or more languages advertised the language picked is
\* not the current one
C26_PicksAdvertisedLanguage ==
    (/\ cur = "SetLanguage"
     /\ verdict[cur] # "NOT_RUN"
     /\ props["languages_capabilities"] # {}) =>
        /\ ~raised
        /\ self.new_language \in props["languages_capabilities"]
        /\ Cardinality(props["languages_capabilities"]) >= 2 =>
               self.new_language # props["language"]


(***************************************************************************)
(* C27, C28: the scan of GetSensorDefinition                               *)
(***************************************************************************)
\* GetSensorDefinition is scanning a responder that supports
\* SENSOR_DEFINITION
SensorScan ==
    /\ cur = "GetSensorDefinition"
    /\ verdict[cur] # "NOT_RUN"
    /\ "SENSOR_DEFINITION" \in supported

\* the scan has come to its end on a reply that was an ACK or a
\* NACK(DATA_OUT_OF_RANGE), as every reply before it
SensorScanEnded ==
    /\ SensorScan
    /\ cstate # "AWAITING"
    /\ last.kind \in {"ACK", "NACK"}
    /\ last.matched # 0

\* one request for each sensor index from 0 upwards, in increasing order,
\* and none above MAX_SENSOR_INDEX
SensorScanInOrder ==
    /\ Len(sent) <= MAX_SENSOR_INDEX + 1
    /\ \A i \in DOMAIN sent :
           sent[i] = Request("GET", ROOT_DEVICE, "SENSOR_DEFINITION", i - 1)

\* C27: with SENSOR_DEFINITION supported and every reply an ACK or a
\* NACK(DATA_OUT_OF_RANGE), GetSensorDefinition sends one request for each
\* sensor index 0..MAX_SENSOR_INDEX in increasing order and none beyond,
\* then publishes sensor_definitions and stops
C27_SensorScan ==
    /\ SensorScan => SensorScanInOrder
    /\ SensorScanEnded =>
           /\ Len(sent) = MAX_SENSOR_INDEX + 1
           /\ "sensor_definitions" \in provided
           /\ ~raised
           /\ verdict[cur] = "PASSED"

\* C28: whatever the pattern of ACKs and NACKs, the scan ends without an
\* error being raised; when no sensor index was ACKed it publishes an empty
\* sensor_definitions and ends with a verdict
C28_ScanNeverRaises ==
    /\ cur = "GetSensorDefinition" => ~raised
    /\ (SensorScanEnded /\ self.sensors = {}) =>
           /\ "sensor_definitions" \in provided
           /\ props["sensor_definitions"] = {}
           /\ verdict[cur] \in {"PASSED", "FAILED"}
           /\ cstate = "TERMINAL"


(***************************************************************************)
(* C29: a slot description for another slot than the one asked for         *)
(***************************************************************************)
\* GetSlotDescriptions has handled an ACK that matched its expected outcome
\* and whose slot_number is not the slot of the request it answers
SlotMismatchHandled ==
    /\ cur = "GetSlotDescriptions"
    /\ last.kind = "ACK"
    /\ last.matched # 0
    /\ last.sentBefore > 0
    /\ last.resp.f["slot_number"] # sent[last.sentBefore].arg

\* the slots still to be asked for when the mismatched ACK arrived
SlotsAfterMismatch ==
    {x \in props["defined_slots"] : x > sent[last.sentBefore].arg}

\* C29: an ACK whose slot_number differs from the slot asked for adds one
\* warning, neither fails the test nor raises an error, and the chain goes
\* on to the next defined slot (or ends when there is none)
C29_SlotMismatchWarns ==
    SlotMismatchHandled =>
        /\ ~raised
        /\ verdict[cur] = "PASSED"
        /\ \E e \in mlog : e[1] = cur /\ e[3] = "AddWarning"
        /\ IF SlotsAfterMismatch = {}
           THEN cstate = "TERMINAL" /\ Len(sent) = last.sentBefore
           ELSE /\ Len(sent) = last.sentBefore + 1
                /\ sent[Len(sent)].arg
                       = CHOOSE x \in SlotsAfterMismatch :
                             \A y \in SlotsAfterMismatch : x <= y


(***************************************************************************)
(* C30: every looped test sends a bounded number of requests               *)
(***************************************************************************)
\* the tests that scan a range of indices, and the most requests the scan
\* may take (255 for each but FindSubDevices)
ScanTests ==
    {"FindSubDevices", "GetPersonalities", "GetSensorDefinition",
     "FindSelfTests", "GetUndefinedSensorValues"}

ScanLimit(t) ==
    CASE t = "FindSubDevices" -> MAX_VALID_SUB_DEVICE
      [] t = "GetPersonalities" -> MAX_PERSONALITY_NUMBER
      [] t \in {"GetSensorDefinition", "GetUndefinedSensorValues"} ->
           MAX_SENSOR_INDEX + 1
      [] t = "FindSelfTests" -> MAX_SELF_TEST

\* the tests that walk a list, and the length of the list each walks
ListTests ==
    {"GetParamDescription", "GetSlotDescriptions", "GetSensorValues",
     "ResetSensorValue", "RecordSensorValues"}

ListLength(t) ==
    CASE t = "GetParamDescription" -> Len(props["manufacturer_parameters"])
      [] t = "GetSlotDescriptions" -> Cardinality(props["defined_slots"])
      [] t \in {"GetSensorValues", "ResetSensorValue",
                "RecordSensorValues"} ->
           Cardinality(props["sensor_definitions"])

\* the looped test has the chain, its Test() having run
Looping == cur \in ScanTests \cup ListTests /\ verdict[cur] # "PENDING"

\* a step of a looped test's chain either ends the chain or sends exactly
\* one more request
ChainStep ==
    (Looping /\ cstate = "AWAITING" /\ cur' = cur) =>
        \/ cstate' # "AWAITING" /\ outstanding' = 0 /\ sent' = sent
        \/ /\ cstate' = "AWAITING"
           /\ Len(sent') = Len(sent) + 1
           /\ SubSeq(sent', 1, Len(sent)) = sent

\* the number of requests of a scan stays within its limit
ScansBounded ==
    (Looping /\ cur \in ScanTests) => Len(sent) <= ScanLimit(cur)

\* the statement as written: a list-driven chain sends at most one request
\* for each element of its list
C30_OnePerListElement ==
    (Looping /\ cur \in ListTests) => Len(sent) <= ListLength(cur)

\* a list-driven chain sends at most one request for each element of its
\* list, and one request when the list is empty
ListsBounded ==
    (Looping /\ cur \in ListTests) =>
        Len(sent) <= IF ListLength(cur) = 0 THEN 1 ELSE ListLength(cur)

\* C30: whatever the replies and timeouts, a looped test sends a bounded
\* number of requests and then stops: a scan at most its limit, a
\* list-driven chain at most one for each element of its list (one when the
\* list is empty, which GetParamDescription alone leaves unasked), and
\* every step of the chain either ends it or sends one more request
C30_LoopsBounded ==
    /\ [](ScansBounded /\ ListsBounded)
    /\ [][ChainStep]_vars

\* a chain has asked for every element of a list of two and stopped
C30_Witness ==
    /\ cur \in ListTests
    /\ ListLength(cur) = 2
    /\ Len(sent) = 2
    /\ cstate = "TERMINAL"
    /\ verdict[cur] = "PASSED"


(***************************************************************************)
(* C31: the dependency graph of the catalog                                *)
(***************************************************************************)
\* the descriptors that have an edge in the dependency graph, and those that
\* a run of the model loads
Descriptors == Declaring \cup Tests

RECURSIVE Sortable(_)
\* the descriptors of S can be put in an order that places every
\* descriptor after its predecessors in S: some descriptor has none, and
\* the others are sortable without those that have none
Sortable(S) ==
    IF S = {} THEN TRUE
    ELSE LET free == {t \in S : Predecessors(S, t) = {}}
         IN free # {} /\ Sortable(S \ free)

\* the graph over the whole catalog has no cycle
CatalogSortable == Sortable(Descriptors)

\* every explicit ordering dependency names a descriptor of the catalog
DepsDeclared == \A t \in Descriptors : DEPS(t) \subseteq Descriptors

\* every required fact name is provided by some descriptor
RequiresProvided ==
    \A t \in Descriptors :
        \A n \in REQUIRES(t) : \E u \in Descriptors : n \in PROVIDES(u)

\* the scheduler can complete the order of the loaded selection: while a
\* descriptor is unplaced, one is ready to be placed
NeverStuck ==
    Len(order) < Cardinality(catalog) => \E t \in catalog : Ready(t)

\* C31: the graph with an edge producer -> consumer for every name in both
\* a PROVIDES and a REQUIRES, and an edge for every DEPS entry, has no
\* cycle, and every name in a REQUIRES is in the PROVIDES of some
\* descriptor, so that a complete topological order exists
C31_AcyclicAndProvided ==
    /\ CatalogSortable
    /\ RequiresProvided
    /\ DepsDeclared
    /\ NeverStuck

\* a selection with both kinds of edge has been ordered completely
C31_Witness ==
    /\ catalog = {"GetDeviceInfo", "GetPersonality",
                  "GetPersonalityDescription", "SetPersonality"}
    /\ Len(order) = 4
    /\ order[4] = "SetPersonality"


(***************************************************************************)
(* C32: the readers of the facts SetPersonality makes stale                *)
(***************************************************************************)
\* the tests other than SetPersonality that read current_personality or
\* dmx_footprint as GetDeviceInfo found them
PersonalityReaders ==
    {t \in Tests \ {"SetPersonality"} :
        REQUIRES(t) \cap {"current_personality", "dmx_footprint"} # {}}

\* C32: in every schedule the declarations permit, each test other than
\* SetPersonality that reads current_personality or dmx_footprint
\* (GetPersonality, GetPersonalityDescription, GetStartAddress,
\* SetStartAddress, SetOutOfRangeStartAddress, SetZeroStartAddress,
\* SetOversizedStartAddress) is placed before SetPersonality
C32_ReadersBeforeSetPersonality ==
    /\ PersonalityReaders =
           {"GetPersonality", "GetPersonalityDescription", "GetStartAddress",
            "SetStartAddress", "SetOutOfRangeStartAddress",
            "SetZeroStartAddress", "SetOversizedStartAddress"}
    /\ \A t \in PersonalityReaders \cap catalog :
           InOrder("SetPersonality") =>
               /\ InOrder(t)
               /\ Position(t) < Position("SetPersonality")


(***************************************************************************)
(* C33: a test that passed has published what it declares                  *)
(***************************************************************************)
\* test t has run and its chain has ended
Ended(t) ==
    /\ verdict[t] # "PENDING"
    /\ t = cur => cstate \in {"TERMINAL", "RESET_PENDING", "RESETTING"}

\* C33: whenever a test that declares PROVIDES ends PASSED, every name of
\* its PROVIDES has been written to the Property Store, on the paths
\* 'PID not supported' and 'nothing to iterate' as on every other
C33_PassedMeansPublished ==
    \A t \in Tests :
        (Ended(t) /\ verdict[t] = "PASSED") => PROVIDES(t) \subseteq provided


(***************************************************************************)
(* C34: what GetSupportedParameters publishes and reports                  *)
(***************************************************************************)
RECURSIVE IsSubList(_, _)
\* sequence a is b with some elements left out
IsSubList(a, b) ==
    IF a = <<>> THEN TRUE
    ELSE IF b = <<>> THEN FALSE
    ELSE IF Head(a) = Head(b) THEN IsSubList(Tail(a), Tail(b))
    ELSE IsSubList(a, Tail(b))

\* the values of the mandatory parameters
MandatoryValues == {PidValue(n) : n \in MANDATORY_PIDS}

\* the entries of a reported list that carry a banned value, and those that
\* carry a mandatory one
BannedEntries(params) == {i \in 1..Len(params) : params[i] \in 1..3}

MandatoryEntries(params) ==
    {i \in 1..Len(params) : params[i] \in MandatoryValues}

\* the groups and dependencies the published list supports only in part
PartlySupported(sup) ==
    Cardinality({g \in PID_GROUPS :
                    /\ \E n \in g : PidValue(n) \in Range(sup)
                    /\ \E n \in g : PidValue(n) \notin Range(sup)})
    + Cardinality({d \in PID_DEPENDENCIES :
                      /\ PidValue(d[1]) \in Range(sup)
                      /\ \E n \in d[2] : PidValue(n) \notin Range(sup)})

\* GetSupportedParameters has logged a diagnostic of the kind
SupportedLogged(kind) ==
    \E e \in mlog : e[1] = "GetSupportedParameters" /\ e[3] = kind

\* the reply to GetSupportedParameters has been handled
SupportedHandled ==
    /\ cur = "GetSupportedParameters"
    /\ cstate = "TERMINAL"
    /\ Responded

\* the published lists hold no banned and no mandatory value, and the
\* manufacturer list is a sub-list of the supported list
PublishedClean ==
    "supported_parameters" \in provided =>
        /\ Range(props["supported_parameters"]) \cap (1..3) = {}
        /\ Range(props["supported_parameters"]) \cap MandatoryValues = {}
        /\ "manufacturer_parameters" \in provided
        /\ IsSubList(props["manufacturer_parameters"],
                     props["supported_parameters"])

\* an ACK logs one warning per banned entry and one advisory per mandatory
\* entry, next to the advisories for groups supported in part
OnePerEntry ==
    (SupportedHandled /\ last.kind = "ACK") =>
        LET params == last.resp.f["params"]
            nbanned == Cardinality(BannedEntries(params))
            nmandatory == Cardinality(MandatoryEntries(params))
            npartly == PartlySupported(props["supported_parameters"])
        IN /\ "supported_parameters" \in provided
           /\ nwarn = nbanned + nmandatory + npartly
           /\ SupportedLogged("AddWarning") <=> nbanned > 0
           /\ SupportedLogged("AddAdvisory") <=> nmandatory + npartly > 0

BothEmpty ==
    /\ {"manufacturer_parameters", "supported_parameters"} \subseteq provided
    /\ props["manufacturer_parameters"] = <<>>
    /\ props["supported_parameters"] = <<>>

Footprints == 0..MAX_DMX_ADDRESS

\* the addresses DMX_START_ADDRESS may have reported: both ends and the
\* middle of the universe, and the address of a device without a footprint
Addresses ==
    {1, 2, 255, 256, 257, MAX_DMX_ADDRESS - 1, MAX_DMX_ADDRESS,
     ZERO_FOOTPRINT_ADDRESS}

\* SetStartAddress is next to run, with both facts it requires discovered
InitAddress ==
    /\ catalog = {"SetStartAddress"}
    /\ supported = {}
    /\ order = <<"SetStartAddress">>
    /\ pc = 0
    /\ cur = "None"
    /\ cstate = "IDLE"
    /\ expected = <<>>
    /\ outstanding = 0
    /\ sent = <<>>
    /\ \E fp \in Footprints, sa \in Addresses :
           props = [n \in FactNames |->
                       IF n = "dmx_footprint" THEN fp
                       ELSE IF n = "dmx_address" THEN sa
                       ELSE FactDefault(n)]
    /\ provided = {"dmx_footprint", "dmx_address"}
    /\ nwrites = [n \in FactNames |->
                     IF n \in {"dmx_footprint", "dmx_address"} THEN 1 ELSE 0]
    /\ mlog = {}
    /\ verdict = [t \in Tests |-> "PENDING"]
    /\ nwarn = 0
    /\ self = InitSelf
    /\ aborted = FALSE
    /\ raised = FALSE
    /\ last = NoLast
    /\ registry = NoRegistry

NextAddress == Execute

SpecAddress == InitAddress /\ [][NextAddress]_vars

\* SetStartAddress.Test has run
AddressChosen ==
    /\ cur = "SetStartAddress"
    /\ Len(sent) = 1
    /\ cstate = "AWAITING"

\* C35: for a footprint in 1..512 and a current address in 1..512 the
\* address SetStartAddress sets satisfies 1 <= start_address and
\* start_address + footprint - 1 <= 512, and differs from the current
\* address whenever footprint < 512; with footprint 0 or current address
\* 0xFFFF the test expects NACK(NR_UNKNOWN_PID) and no ACK
C35_AddressInUniverse ==
    AddressChosen =>
        LET footprint == props["dmx_footprint"]
            current == props["dmx_address"]
            start_address == sent[1].arg
        IN /\ sent[1].cc = "SET"
           /\ sent[1].pid = "DMX_START_ADDRESS"
           /\ self.start_address = start_address
           /\ Len(expected) = 1
           /\ (footprint \in 1..512 /\ current \in 1..512) =>
                  /\ 1 <= start_address
                  /\ start_address + footprint - 1 <= 512
                  /\ footprint < 512 => start_address # current
                  /\ expected[1].ack
           /\ (footprint = 0 \/ current = 65535) =>
                  /\ ~expected[1].ack
                  /\ expected[1].reason = "NR_UNKNOWN_PID"

\* a footprint of 2 at address 511 fills the universe: the test wraps to 1
C35_Witness ==
    /\ AddressChosen
    /\ props["dmx_footprint"] = 2
    /\ props["dmx_address"] = 511
    /\ sent[1].arg = 1
    /\ expected[1].ack


(***************************************************************************)
(* C36: NewValue of the descriptors that step through a list of values     *)
(***************************************************************************)
\* the descriptors whose NewValue steps through an allowed list
SteppingTests == {"SetLampOnMode", "SetDisplayInvert", "SetPowerState"}

\* the fact OldValue reads, and the list NewValue steps through
OldFact(t) == CHOOSE n \in REQUIRES(t) : TRUE

AllowedList(t) ==
    CASE t = "SetLampOnMode" -> SetLampOnMode_ALLOWED_MODES
      [] t = "SetDisplayInvert" -> SetDisplayInvert_ALLOWED_MODES
      [] t = "SetPowerState" -> ALLOWED_STATES

\* what the discovered fact may hold: any value of a UInt8 field, or None
\* after a NACK
OldValues == 0..255 \cup {NoneVal}

\* one of the descriptors is next to run, with the fact it requires
\* discovered and its parameter supported
InitNewValue ==
    /\ \E t \in SteppingTests, old \in OldValues :
        /\ catalog = {t}
        /\ supported = {PID(t)}
        /\ order = <<t>>
        /\ props = [n \in FactNames |->
                       IF n = OldFact(t) THEN old ELSE FactDefault(n)]
        /\ provided = REQUIRES(t)
        /\ nwrites = [n \in FactNames |-> IF n = OldFact(t) THEN 1 ELSE 0]
    /\ pc = 0
    /\ cur = "None"
    /\ cstate = "IDLE"
    /\ expected = <<>>
    /\ outstanding = 0
    /\ sent = <<>>
    /\ mlog = {}
    /\ verdict = [t \in Tests |-> "PENDING"]
    /\ nwarn = 0
    /\ self = InitSelf
    /\ aborted = FALSE
    /\ raised = FALSE
    /\ last = NoLast
    /\ registry = NoRegistry

NextNewValue == Execute

SpecNewValue == InitNewValue /\ [][NextNewValue]_vars

\* the position of value x in list q
IndexOf(q, x) == CHOOSE i \in 1..Len(q) : q[i] = x

\* the element after position i of list q, the first one after the last
CyclicNext(q, i) == q[(i % Len(q)) + 1]

\* the test has sent the SET that carries NewValue()
NewValueSent ==
    /\ cur \in SteppingTests
    /\ Len(sent) = 1
    /\ sent[1].cc = "SET"

\* C36: NewValue of SetLampOnMode, SetDisplayInvert and SetPowerState is a
\* member of the allowed list; for an old value in the list it is the
\* cyclically next element, which differs from the old value, and for any
\* other old value it is the first element
C36_NewValueCycles ==
    NewValueSent =>
        LET allowed == AllowedList(cur)
            old == props[OldFact(cur)]
            new == sent[1].arg
        IN /\ new \in Range(allowed)
           /\ IF old \in Range(allowed)
              THEN /\ new = CyclicNext(allowed, IndexOf(allowed, old))
                   /\ new # old
              ELSE new = allowed[1]

\* SetPowerState steps from the last allowed state, 0xff, to the first
C36_Witness ==
    /\ NewValueSent
    /\ cur = "SetPowerState"
    /\ props["power_state"] = 255
    /\ sent[1].arg = 0


(***************************************************************************)
(* C37: SetIdentifyDevice changes the mode, reads it back and restores it  *)
(***************************************************************************)
\* the chain of SetIdentifyDevice for a discovered identify_state
IdentifyChain(state) ==
    <<Request("SET", ROOT_DEVICE, "IDENTIFY_DEVICE", Not(state)),
      Request("GET", ROOT_DEVICE, "IDENTIFY_DEVICE", NoArg),
      Request("SET", ROOT_DEVICE, "IDENTIFY_DEVICE", state)>>

\* C37: with discovered identify_state s, SetIdentifyDevice sends SET(not
\* s), then GET, then SET(s) and nothing else, in that order and each only
\* after the request before it was ACKed; whenever it ends PASSED it has
\* sent all three and the last value it set is the original s
C37_SetReadRestore ==
    (cur = "SetIdentifyDevice" /\ verdict[cur] # "NOT_RUN") =>
        LET chain == IdentifyChain(props["identify_state"])
        IN /\ Len(sent) <= Len(chain)
           /\ sent = SubSeq(chain, 1, Len(sent))
           /\ \A i \in 2..Len(sent) :
                  \E j \in 1..Len(last.acked) : last.acked[j] = i - 1
           /\ (Ended(cur) /\ verdict[cur] = "PASSED") =>
                  /\ sent = chain
                  /\ last.acked = <<1, 2, 3>>
                  /\ sent[Len(sent)].cc = "SET"
                  /\ sent[Len(sent)].arg = props["identify_state"]

\* the device was identifying: the test turned the mode off, read it back
\* and turned it on again, and passed
C37_Witness ==
    /\ cur = "SetIdentifyDevice"
    /\ props["identify_state"] = 1
    /\ Ended(cur)
    /\ verdict[cur] = "PASSED"
    /\ Len(sent) = 3
    /\ sent[1].arg = 0
    /\ sent[3].arg = 1


(***************************************************************************)
(* C38: the personality SetPersonality sets                                *)
(***************************************************************************)
\* longest personalities list drawn
MaxListed == 2

\* the personalities lists the store may hold
PersonalityLists ==
    UNION {[1..n -> {[personality |-> a, slots_required |-> b, name |-> 0] :
                        a \in 1..MaxPersonalityCount, b \in {0, 1}}] :
              n \in 0..MaxListed}

\* SetPersonality is next to run, with the three facts it requires in the
\* store
InitPersonality ==
    /\ catalog = {"SetPersonality"}
    /\ supported \in SUBSET {"DMX_PERSONALITY"}
    /\ order = <<"SetPersonality">>
    /\ \E count \in 0..MaxPersonalityCount,
          current \in 0..MaxPersonalityCount,
          list \in PersonalityLists :
           props = [n \in FactNames |->
                       CASE n = "personality_count" -> count
                         [] n = "current_personality" -> current
                         [] n = "personalities" -> list
                         [] OTHER -> FactDefault(n)]
    /\ provided = REQUIRES("SetPersonality")
    /\ nwrites = [n \in FactNames |->
                     IF n \in REQUIRES("SetPersonality") THEN 1 ELSE 0]
    /\ pc = 0
    /\ cur = "None"
    /\ cstate = "IDLE"
    /\ expected = <<>>
    /\ outstanding = 0
    /\ sent = <<>>
    /\ mlog = {}
    /\ verdict = [t \in Tests |-> "PENDING"]
    /\ nwarn = 0
    /\ self = InitSelf
    /\ aborted = FALSE
    /\ raised = FALSE
    /\ last = NoLast
    /\ registry = NoRegistry

NextPersonality == Execute

SpecPersonality == InitPersonality /\ [][NextPersonality]_vars

\* SetPersonality.Test has run
PersonalityTestRan == cur = "SetPersonality" /\ cstate # "IDLE"

\* with personality_count > 0 and a non-empty list the personality set is
\* an element of the list, with a number other than the current one whenever
\* the list holds such a number
PicksFromList ==
    (/\ PersonalityTestRan
     /\ props["personality_count"] > 0
     /\ props["personalities"] # <<>>) =>
        LET list == props["personalities"]
            current == props["current_personality"]
        IN /\ Len(sent) = 1
           /\ sent[1].cc = "SET"
           /\ sent[1].pid = "DMX_PERSONALITY"
           /\ self.new_personality \in Range(list)
           /\ sent[1].arg = self.new_personality["personality"]
           /\ (\E i \in 1..Len(list) : list[i]["personality"] # current) =>
                  sent[1].arg # current

FailedUnsent ==
    /\ verdict[cur] = "FAILED"
    /\ sent = <<>>
    /\ cstate = "TERMINAL"

\* C38 as stated: the choice from a non-empty list, and with an empty list
\* the test ends FAILED without sending a request
C38_EmptyListFails ==
    /\ PicksFromList
    /\ (PersonalityTestRan /\ props["personalities"] = <<>>) => FailedUnsent

\* C38: the choice from a non-empty list, and with personality_count > 0
\* and an empty list the test ends FAILED without sending a request; with
\* personality_count 0 it sends SET(1) and expects NACK(NR_UNKNOWN_PID)
C38_PicksAnotherPersonality ==
    /\ PicksFromList
    /\ (/\ PersonalityTestRan
        /\ props["personality_count"] > 0
        /\ props["personalities"] = <<>>) => FailedUnsent
    /\ (PersonalityTestRan /\ props["personality_count"] = 0) =>
           /\ Len(sent) = 1
           /\ sent[1].arg = 1
           /\ Len(expected) = 1
           /\ ~expected[1].ack
           /\ expected[1].reason = "NR_UNKNOWN_PID"

\* the current personality is listed first: the test sets the second
C38_Witness ==
    /\ PersonalityTestRan
    /\ props["personality_count"] = 2
    /\ props["current_personality"] = 1
    /\ Len(props["personalities"]) = 2
    /\ props["personalities"][1]["personality"] = 1
    /\ props["personalities"][2]["personality"] = 2
    /\ sent[1].arg = 2

====
